---- MODULE Spec2Model ----
(***************************************************************************)
(* Model of the helper-filter builders of the engine                       *)
(* (opBuilderHelperFilter.cpp) and of the json::Document they read         *)
(* (json.hpp).  A builder turns a one-entry definition {name: "+op/..."}   *)
(* into a predicate over events; evaluating the predicate returns a        *)
(* boolean and calls the tracer.                                           *)
(*                                                                         *)
(* A std::string is a sequence of one-character strings.                   *)
(***************************************************************************)
EXTENDS Integers, Sequences, FiniteSets, TLC

VARIABLES
    phase,      \* "idle" | "built" | "failed" | "evaluated"
    helper,     \* name of the builder that was called ("none" before)
    def,        \* the definition handed to the builder
    error,      \* what the builder threw (NoError when it returned)
    pred,       \* the predicate the builder returned (NoPred when it threw)
    event,      \* index in Events of the event last evaluated (0: none)
    ret,        \* value returned by the last evaluation
    raised,     \* what the last evaluation let escape ("none" when it returned)
    trace,      \* the strings handed to the tracer by the last evaluation
    work,       \* per worker thread: the evaluation it is in or has finished
    m_doc,      \* the value a json::Document holds
    call        \* the last call of a member of that Document and what it gave

vars == <<phase, helper, def, error, pred, event, ret, raised, trace, work,
          m_doc, call>>

-----------------------------------------------------------------------------
(* Bounds of the model *)

\* the definition values tried for an operator carry up to MaxExtra tokens
\* more than the operator takes
MaxExtra == 1

\* the number of worker threads that evaluate the predicate at a time
MaxWorkers == 2

\* the number of calls made on a json::Document one after another
MaxCalls == 3

-----------------------------------------------------------------------------
(* Characters and strings *)

Digits == <<"0", "1", "2", "3", "4", "5", "6", "7", "8", "9">>

IsDigit(c) == \E i \in 1..10 : Digits[i] = c

DigitVal(c) == (CHOOSE i \in 1..10 : Digits[i] = c) - 1

\* byte values of the characters the model uses (std::string compares bytes)
Ascii ==
    ( "$" :> 36 @@ "(" :> 40 @@ ")" :> 41 @@ "+" :> 43 @@ "-" :> 45 @@
      "." :> 46 @@ "/" :> 47 @@
      "0" :> 48 @@ "1" :> 49 @@ "2" :> 50 @@ "3" :> 51 @@ "4" :> 52 @@
      "5" :> 53 @@ "6" :> 54 @@ "7" :> 55 @@ "8" :> 56 @@ "9" :> 57 @@
      "_" :> 95 @@
      "a" :> 97 @@ "b" :> 98 @@ "c" :> 99 @@ "d" :> 100 @@ "e" :> 101 @@
      "f" :> 102 @@ "g" :> 103 @@ "h" :> 104 @@ "i" :> 105 @@ "l" :> 108 @@
      "m" :> 109 @@ "n" :> 110 @@ "o" :> 111 @@ "q" :> 113 @@ "r" :> 114 @@
      "s" :> 115 @@ "t" :> 116 @@ "x" :> 120 @@ "y" :> 121 @@ "z" :> 122 @@
      "~" :> 126 )

\* index of the first c in s at or after position from, 0 when there is none
RECURSIVE Find(_, _, _)
Find(s, c, from) ==
    IF from > Len(s) THEN 0
    ELSE IF s[from] = c THEN from
    ELSE Find(s, c, from + 1)

Tail1(s, i) == SubSeq(s, i, Len(s))

\* std::string::compare : -1, 0, 1 by bytewise lexicographic order
RECURSIVE StrCompare(_, _)
StrCompare(a, b) ==
    IF a = <<>> /\ b = <<>> THEN 0
    ELSE IF a = <<>> THEN -1
    ELSE IF b = <<>> THEN 1
    ELSE IF Ascii[a[1]] < Ascii[b[1]] THEN -1
    ELSE IF Ascii[a[1]] > Ascii[b[1]] THEN 1
    ELSE StrCompare(Tail(a), Tail(b))

\* std::string::substr(0, n) where n is an int converted to size_t:
\* a negative n becomes a huge count, i.e. the whole string
SubstrN(s, n) ==
    IF n < 0 \/ n >= Len(s) THEN s ELSE SubSeq(s, 1, n)

\* utils::string::split : split on the delimiter, no escaping, empty tokens
\* kept
RECURSIVE split(_, _)
split(str, delimiter) ==
    LET i == Find(str, delimiter, 1)
    IN  IF i = 0 THEN <<str>>
        ELSE <<SubSeq(str, 1, i - 1)>> \o split(Tail1(str, i + 1), delimiter)

\* the inverse used to write definition values: tokens joined by '/'
RECURSIVE Join(_)
Join(toks) ==
    IF Len(toks) = 0 THEN <<>>
    ELSE IF Len(toks) = 1 THEN toks[1]
    ELSE toks[1] \o <<"/">> \o Join(Tail(toks))

\* std::replace(begin, end, from, to)
Replace(s, from, to) == [i \in 1..Len(s) |-> IF s[i] = from THEN to ELSE s[i]]

\* formatJsonPath had it put the root slash before every path
formatJsonPathAlwaysPrepend(path) == Replace(<<"/">> \o path, ".", "/")

\* json::formatJsonPath.  front() of an empty string is outside the
\* contract of std::string; this operator gives the result of the build in
\* which front() then reads the terminating NUL (which is not '/'), the
\* builders add the build that stops there (see FrontStops).
formatJsonPath(path) ==
    LET formatedPath == IF path = <<>> \/ path[1] # "/"
                        THEN <<"/">> \o path
                        ELSE path
    IN  Replace(formatedPath, ".", "/")

-----------------------------------------------------------------------------
(* Decimal numbers *)

\* number of consecutive digits of s starting at position i
RECURSIVE DigitRun(_, _)
DigitRun(s, i) ==
    IF i > Len(s) \/ ~IsDigit(s[i]) THEN 0 ELSE 1 + DigitRun(s, i + 1)

\* the digits without their leading zeros (at least one digit is kept)
RECURSIVE StripZeros(_)
StripZeros(ds) ==
    IF Len(ds) > 1 /\ ds[1] = "0" THEN StripZeros(Tail(ds)) ELSE ds

\* value of a digit string of at most nine digits
RECURSIVE DigitsValue(_)
DigitsValue(ds) ==
    IF ds = <<>> THEN 0
    ELSE DigitsValue(SubSeq(ds, 1, Len(ds) - 1)) * 10 + DigitVal(ds[Len(ds)])

\* INT_MAX and -INT_MIN of the 32-bit int, as digit strings
IntMaxDigits == <<"2", "1", "4", "7", "4", "8", "3", "6", "4", "7">>
IntMinDigits == <<"2", "1", "4", "7", "4", "8", "3", "6", "4", "8">>

\* magnitude comparison of two digit strings without leading zeros
MagnitudeLeq(a, b) ==
    \/ Len(a) < Len(b)
    \/ Len(a) = Len(b) /\ StrCompare(a, b) <= 0

\* strtol's reading of the head of s: optional sign, then the longest run
\* of digits; what follows the digits is ignored
\* (the tokens of the model carry no leading white space)
ScanInt(s) ==
    LET signed == s # <<>> /\ s[1] \in {"-", "+"}
        start  == IF signed THEN 2 ELSE 1
        count  == DigitRun(s, start)
        mag    == IF count = 0 THEN <<"0">>
                  ELSE StripZeros(SubSeq(s, start, start + count - 1))
        neg    == signed /\ s[1] = "-"
    IN  [converted |-> count > 0,
         neg       |-> neg,
         mag       |-> mag,
         inRange   |-> IF neg THEN MagnitudeLeq(mag, IntMinDigits)
                       ELSE MagnitudeLeq(mag, IntMaxDigits)]

\* the int a scan in range stands for
ScanValue(sc) ==
    IF sc.neg /\ sc.mag = IntMinDigits THEN 0 - 2147483647 - 1
    ELSE IF sc.neg THEN 0 - DigitsValue(sc.mag)
    ELSE DigitsValue(sc.mag)

\* std::stoi : throws invalid_argument when no digit was read and
\* out_of_range when the value does not fit an int
stoi(s) ==
    LET sc == ScanInt(s)
    IN  IF ~sc.converted THEN [thrown |-> "invalid_argument", value |-> 0]
        ELSE IF ~sc.inRange THEN [thrown |-> "out_of_range", value |-> 0]
        ELSE [thrown |-> "none", value |-> ScanValue(sc)]

\* atoi : 0 when no digit was read, never an error
\* (the count tokens of the model fit an int)
atoi(s) ==
    LET sc == ScanInt(s)
    IN  IF sc.converted /\ sc.inRange THEN ScanValue(sc) ELSE 0

-----------------------------------------------------------------------------
(* JSON values: rapidjson::Value *)

\* A value is [kind, v].  v is the text of a string, the decimal text of a
\* number as the document was parsed from, the members of an object (a
\* function from names to values) or the elements of an array.
Str(s)  == [kind |-> "string", v |-> s]
Num(t)  == [kind |-> "number", v |-> t]
Null    == [kind |-> "null", v |-> <<>>]
Obj(m)  == [kind |-> "object", v |-> m]
Arr(a)  == [kind |-> "array", v |-> a]

IsString(val) == val.kind = "string"

\* rapidjson sets the int flag of a parsed number iff it is written without
\* fraction or exponent and fits a 32-bit int
IsInt(val) ==
    /\ val.kind = "number"
    /\ LET sc == ScanInt(val.v)
           len == DigitRun(val.v, IF sc.neg THEN 2 ELSE 1)
       IN  /\ sc.converted
           /\ len + (IF sc.neg THEN 1 ELSE 0) = Len(val.v)
           /\ sc.inRange

GetInt(val) == ScanValue(ScanInt(val.v))

GetString(val) == val.v

-----------------------------------------------------------------------------
(* rapidjson::Pointer *)

\* one reference token with its escapes decoded: ~0 is '~', ~1 is '/';
\* any other use of '~' makes the pointer invalid
RECURSIVE Unescape(_)
Unescape(t) ==
    IF t = <<>> THEN [valid |-> TRUE, name |-> <<>>]
    ELSE IF t[1] = "~"
    THEN IF Len(t) >= 2 /\ t[2] \in {"0", "1"}
         THEN LET rest == Unescape(Tail1(t, 3))
              IN  [valid |-> rest.valid,
                   name  |-> <<IF t[2] = "0" THEN "~" ELSE "/">> \o rest.name]
         ELSE [valid |-> FALSE, name |-> <<>>]
    ELSE LET rest == Unescape(Tail(t))
         IN  [valid |-> rest.valid, name |-> <<t[1]>> \o rest.name]

\* rapidjson::Pointer(const char*) : the empty pointer is the root; any other
\* pointer is a sequence of tokens each introduced by '/'
Pointer(path) ==
    IF path = <<>> THEN [valid |-> TRUE, tokens |-> <<>>]
    ELSE IF path[1] # "/" THEN [valid |-> FALSE, tokens |-> <<>>]
    ELSE LET raw == split(Tail(path), "/")
             dec == [i \in 1..Len(raw) |-> Unescape(raw[i])]
         IN  [valid  |-> \A i \in 1..Len(raw) : dec[i].valid,
              tokens |-> [i \in 1..Len(raw) |-> dec[i].name]]

\* a token is an array index iff it is all digits without a leading zero
IsIndex(tok) ==
    /\ tok # <<>>
    /\ DigitRun(tok, 1) = Len(tok)
    /\ (Len(tok) = 1 \/ tok[1] # "0")

\* Pointer::Get : walk the tokens down from the root; a missing member, an
\* index out of range or a scalar on the way gives the null pointer
RECURSIVE PointerGet(_, _)
PointerGet(tokens, val) ==
    IF tokens = <<>> THEN [found |-> TRUE, value |-> val]
    ELSE IF val.kind = "object"
    THEN IF tokens[1] \in DOMAIN val.v
         THEN PointerGet(Tail(tokens), val.v[tokens[1]])
         ELSE [found |-> FALSE, value |-> Null]
    ELSE IF val.kind = "array"
    THEN IF IsIndex(tokens[1]) /\ DigitsValue(tokens[1]) < Len(val.v)
         THEN PointerGet(Tail(tokens), val.v[DigitsValue(tokens[1]) + 1])
         ELSE [found |-> FALSE, value |-> Null]
    ELSE [found |-> FALSE, value |-> Null]

\* the array a with null values added until it has at least n elements
Padded(a, n) ==
    IF Len(a) >= n THEN a ELSE a \o [i \in 1..(n - Len(a)) |-> Null]

\* Pointer::Set : Pointer::Create walks the tokens down from the root
\* and makes what is missing, then the value is copied there.  On an
\* array the token "-" appends an element.  A token that is no index
\* needs an object and a token that is an index needs an object or an
\* array: a value that is neither is changed into an empty one, losing
\* what it held.  An array is filled with nulls up to the index, an
\* object gets the member when it has none of that name.
RECURSIVE PointerSet(_, _, _)
PointerSet(tokens, val, new) ==
    IF tokens = <<>> THEN new
    ELSE LET t == tokens[1]
             rest == Tail(tokens)
         IN  IF val.kind = "array" /\ t = <<"-">>
             THEN Arr(Append(val.v, PointerSet(rest, Null, new)))
             ELSE LET v == IF ~IsIndex(t)
                           THEN (IF val.kind = "object" THEN val ELSE Obj(<<>>))
                           ELSE (IF val.kind \in {"object", "array"} THEN val
                                 ELSE Arr(<<>>))
                  IN  IF v.kind = "array"
                      THEN LET index == DigitsValue(t)
                               a == Padded(v.v, index + 1)
                           IN  Arr([a EXCEPT ![index + 1] =
                                       PointerSet(rest, a[index + 1], new)])
                      ELSE LET m == IF t \in DOMAIN v.v THEN v.v[t] ELSE Null
                           IN  Obj((t :> PointerSet(rest, m, new)) @@ v.v)

\* Pointer::Create alone: the document with the place made, holding what
\* it held or null
PointerCreate(tokens, val) ==
    LET got == PointerGet(tokens, val)
    IN  PointerSet(tokens, val, IF got.found THEN got.value ELSE Null)

\* the members of an object without the one named t
Without(m, t) ==
    IF DOMAIN m = {t} THEN <<>> ELSE [x \in DOMAIN m \ {t} |-> m[x]]

\* the array a without its element at position i: the later elements move
\* down by one
Removed(a, i) == SubSeq(a, 1, i - 1) \o SubSeq(a, i + 1, Len(a))

\* Pointer::Erase : the root cannot be erased; the parent of the last
\* token is looked up as Get does, then the member is erased from an
\* object or the element from an array
RECURSIVE PointerErase(_, _)
PointerErase(tokens, val) ==
    IF tokens = <<>> THEN [erased |-> FALSE, value |-> val]
    ELSE LET t == tokens[1]
             rest == Tail(tokens)
         IN  IF val.kind = "object"
             THEN IF t \notin DOMAIN val.v THEN [erased |-> FALSE, value |-> val]
                  ELSE IF rest = <<>>
                  THEN [erased |-> TRUE, value |-> Obj(Without(val.v, t))]
                  ELSE LET r == PointerErase(rest, val.v[t])
                       IN  [erased |-> r.erased,
                            value  |-> Obj([val.v EXCEPT ![t] = r.value])]
             ELSE IF val.kind = "array"
             THEN IF ~(IsIndex(t) /\ DigitsValue(t) < Len(val.v))
                  THEN [erased |-> FALSE, value |-> val]
                  ELSE IF rest = <<>>
                  THEN [erased |-> TRUE,
                        value  |-> Arr(Removed(val.v, DigitsValue(t) + 1))]
                  ELSE LET r == PointerErase(rest, val.v[DigitsValue(t) + 1])
                       IN  [erased |-> r.erased,
                            value  |-> Arr([val.v EXCEPT ![DigitsValue(t) + 1] = r.value])]
             ELSE [erased |-> FALSE, value |-> val]

-----------------------------------------------------------------------------
(* json::Document *)

\* Document::get : the value at path; throws invalid_argument when the
\* path is no valid pointer and when nothing is found there
get(doc, path) ==
    LET ptr == Pointer(path)
    IN  IF ptr.valid
        THEN LET tmpPtr == PointerGet(ptr.tokens, doc)
             IN  IF tmpPtr.found
                 THEN [thrown |-> "none", what |-> <<>>, value |-> tmpPtr.value]
                 ELSE [thrown |-> "invalid_argument",
                       what   |-> <<"E", "r", "r", "o", "r", ",", " ", "f", "i", "e", "l", "d", " ", "n", "o", "t", " ", "f", "o", "u", "n", "d", ":", " ">> \o path,
                       value  |-> Null]
        ELSE [thrown |-> "invalid_argument",
              what   |-> 
                  <<"E", "r", "r", "o", "r", ",", " ", "r", "e", "c", "e", "i", "v", "e", "d", " ", "i", "n", "v", "a", "l", "i", "d", " ", "p", "a", "t", "h", " ", "i", "n", " ", "g", "e", "t", " ", "f", "u", "n", "c", "t", "i", "o", "n", ":", " ">>
                  \o path,
              value  |-> Null]

\* Document::exists had it reported a path that is no valid pointer as
\* absent
existsAbsentOnInvalid(doc, path) ==
    LET ptr == Pointer(path)
    IN  [thrown |-> "none", what |-> <<>>,
         value  |-> ptr.valid /\ PointerGet(ptr.tokens, doc).found]

\* Document::exists : whether a value is at path; throws invalid_argument
\* when the path is no valid pointer
exists(doc, path) ==
    LET ptr == Pointer(path)
    IN  IF ptr.valid
        THEN [thrown |-> "none", what |-> <<>>,
              value  |-> PointerGet(ptr.tokens, doc).found]
        ELSE [thrown |-> "invalid_argument",
              what   |-> 
                  <<"E", "r", "r", "o", "r", ",", " ", "r", "e", "c", "e", "i", "v", "e", "d", " ", "i", "n", "v", "a", "l", "i", "d", " ", "p", "a", "t", "h", " ", "i", "n", " ", "c", "o", "n", "t", "a", "i", "n", "s", " ", "f", "u", "n", "c", "t", "i", "o", "n", ":", " ">>
                  \o path,
              value  |-> FALSE]

\* what a member that changes the document gives: what escaped from it
\* ("none", the type of an exception, or "crash"), what it returned, and
\* the document after it
Done(x, r, d) == [thrown |-> x, ret |-> r, doc |-> d]

\* t begins with the tokens p
IsPrefixOf(p, t) == Len(p) <= Len(t) /\ SubSeq(t, 1, Len(p)) = p

\* Document::set(path, v) : the value v is put at path, which is made
\* when it is not there
set(doc, path, v) ==
    LET ptr == Pointer(path)
    IN  IF ptr.valid
        THEN Done("none", TRUE, PointerSet(ptr.tokens, doc, v))
        ELSE Done("invalid_argument", FALSE, doc)

\* GenericValue::CopyFrom asserts that a value is not copied from itself:
\* a build with the assertions stops there (TRUE), one without copies
SelfCopyStops == {TRUE, FALSE}

\* Document::set(to, from) : the value found at from is copied to the
\* place Create makes at to.  The pointer to the value at from is taken
\* before Create runs: when from lies on the way to to, the value copied
\* is the one Create left there; otherwise it is the one that was found
\* (the pool allocator of the document frees nothing).
setFrom(doc, to, from) ==
    LET toPtr == Pointer(to)
        fromPtr == Pointer(from)
    IN  IF toPtr.valid /\ fromPtr.valid
        THEN LET fromValue == PointerGet(fromPtr.tokens, doc)
                 created == PointerCreate(toPtr.tokens, doc)
                 source == IF IsPrefixOf(fromPtr.tokens, toPtr.tokens)
                           THEN PointerGet(fromPtr.tokens, created).value
                           ELSE fromValue.value
             IN  IF ~fromValue.found THEN {Done("none", FALSE, doc)}
                 ELSE IF fromPtr.tokens = toPtr.tokens
                 THEN {IF stops THEN Done("crash", FALSE, doc)
                       ELSE Done("none", TRUE, doc) : stops \in SelfCopyStops}
                 ELSE {Done("none", TRUE, PointerSet(toPtr.tokens, doc, source))}
        ELSE {Done("invalid_argument", FALSE, doc)}

\* Document::equals(path, expected) : whether the value at path equals
\* expected; false when nothing is there.  (Value's == takes the members
\* of an object in any order; the numbers of the model are written in one
\* way each.)
equals(doc, path, expected) ==
    LET ptr == Pointer(path)
    IN  IF ptr.valid
        THEN LET got == PointerGet(ptr.tokens, doc)
             IN  [thrown |-> "none",
                  value  |-> IF got.found THEN got.value = expected ELSE FALSE]
        ELSE [thrown |-> "invalid_argument", value |-> FALSE]

\* Document::erase : true when the value was found and erased
erase(doc, path) ==
    LET ptr == Pointer(path)
    IN  IF ptr.valid
        THEN LET r == PointerErase(ptr.tokens, doc)
             IN  Done("none", r.erased, r.value)
        ELSE Done("invalid_argument", FALSE, doc)

\* base::Event::getEventValue : the value of the event's document at path,
\* throwing as Document::get does
getEventValue(e, path) == get(e, path)

-----------------------------------------------------------------------------
(* RE2, for patterns made of literal characters, '.', '(' and ')' *)

\* depth of open groups after reading p from position i, -1 once a ')' had
\* no '(' to close
RECURSIVE GroupDepth(_, _, _)
GroupDepth(p, i, depth) ==
    IF depth < 0 THEN -1
    ELSE IF i > Len(p) THEN depth
    ELSE IF p[i] = "(" THEN GroupDepth(p, i + 1, depth + 1)
    ELSE IF p[i] = ")" THEN GroupDepth(p, i + 1, depth - 1)
    ELSE GroupDepth(p, i + 1, depth)

\* RE2::ok() : the pattern compiled (every group is closed)
RegexOk(pattern) == GroupDepth(pattern, 1, 0) = 0

\* RE2::PartialMatch : the pattern matches somewhere in the text
PartialMatch(text, pattern) ==
    LET lit == SelectSeq(pattern, LAMBDA c : c \notin {"(", ")"})
    IN  \E i \in 0..(Len(text) - Len(lit)) :
            \A j \in 1..Len(lit) : lit[j] = "." \/ text[i + j] = lit[j]

-----------------------------------------------------------------------------
(* utils::ip : an unsigned 32-bit address is its four octets, high first *)

RECURSIVE BitAnd(_, _)
BitAnd(a, b) ==
    IF a = 0 \/ b = 0 THEN 0
    ELSE (a % 2) * (b % 2) + 2 * BitAnd(a \div 2, b \div 2)

U32And(a, b) == [i \in 1..4 |-> BitAnd(a[i], b[i])]
U32Or(a, b)  == [i \in 1..4 |-> a[i] + b[i] - BitAnd(a[i], b[i])]
U32Not(a)    == [i \in 1..4 |-> 255 - a[i]]

\* a <= b as unsigned 32-bit numbers
RECURSIVE OctetsLeq(_, _)
OctetsLeq(a, b) ==
    IF a = <<>> THEN TRUE
    ELSE IF a[1] < b[1] THEN TRUE
    ELSE IF a[1] > b[1] THEN FALSE
    ELSE OctetsLeq(Tail(a), Tail(b))

U32Leq(a, b) == OctetsLeq(a, b)

U32Zero == <<0, 0, 0, 0>>

IsOctet(t) ==
    /\ t # <<>>
    /\ Len(t) <= 3
    /\ DigitRun(t, 1) = Len(t)
    /\ DigitsValue(t) <= 255

\* utils::ip::IPv4ToUInt : four dotted octets, none above 255; throws
\* otherwise
IPv4ToUInt(ip) ==
    LET parts == split(ip, ".")
    IN  IF Len(parts) = 4 /\ \A i \in 1..4 : IsOctet(parts[i])
        THEN [thrown |-> "none",
              value  |-> [i \in 1..4 |-> DigitsValue(parts[i])]]
        ELSE [thrown |-> "invalid_argument", value |-> U32Zero]

RECURSIVE Pow2(_)
Pow2(k) == IF k = 0 THEN 1 ELSE 2 * Pow2(k - 1)

\* the netmask of a prefix length
PrefixMask(len) ==
    [i \in 1..4 |->
        LET ones == IF len >= 8 * i THEN 8
                    ELSE IF len <= 8 * (i - 1) THEN 0
                    ELSE len - 8 * (i - 1)
        IN  256 - Pow2(8 - ones)]

\* utils::ip::IPv4MaskUInt : a dotted netmask or a decimal prefix length;
\* throws otherwise
IPv4MaskUInt(mask) ==
    IF Find(mask, ".", 1) # 0 THEN IPv4ToUInt(mask)
    ELSE IF /\ mask # <<>>
            /\ Len(mask) <= 2
            /\ DigitRun(mask, 1) = Len(mask)
            /\ DigitsValue(mask) <= 32
    THEN [thrown |-> "none", value |-> PrefixMask(DigitsValue(mask))]
    ELSE [thrown |-> "invalid_argument", value |-> U32Zero]

-----------------------------------------------------------------------------
(* Definitions, errors, predicates and trace labels *)

REFERENCE_ANCHOR == "$"

\* "{} Condition Success." and "{} Condition Failure." after the placeholder
SUCCESS_TRACE_MSG ==
    <<" ", "C", "o", "n", "d", "i", "t", "i", "o", "n", " ", "S", "u", "c", "c", "e", "s", "s", ".">>
FAILURE_TRACE_MSG ==
    <<" ", "C", "o", "n", "d", "i", "t", "i", "o", "n", " ", "F", "a", "i", "l", "u", "r", "e", ".">>

\* a definition is the one member {name: value} of the builder's argument
Def(name, value) == [name |-> name, value |-> value]

Quoted(s) == <<"\"">> \o s \o <<"\"">>

\* Document::str() of a definition: its compact JSON text
\* (the names and values of the model need no escaping)
DefStr(d) ==
    <<"{">> \o Quoted(d.name) \o <<":">>
            \o (IF IsString(d.value) THEN Quoted(d.value.v) ELSE d.value.v)
            \o <<"}">>

NoError == [type |-> "none", what |-> ""]

\* the process stopped on an operation outside its contract
Crash == [type |-> "crash", what |-> "undefined behaviour"]

None == [has |-> FALSE, v |-> <<>>]
Some(x) == [has |-> TRUE, v |-> x]
NoInt == [has |-> FALSE, v |-> 0]
SomeInt(n) == [has |-> TRUE, v |-> n]

\* what a returned lambda captured
NoPred ==
    [helper       |-> "none",
     field        |-> <<>>,
     op           |-> "",
     refValue     |-> None,
     value        |-> None,
     ivalue       |-> NoInt,
     n            |-> 0,
     parameter    |-> <<>>,
     regex        |-> <<>>,
     net_lower    |-> U32Zero,
     net_upper    |-> U32Zero,
     successTrace |-> <<>>,
     failureTrace |-> <<>>]

Built(p) == [error |-> NoError, pred |-> p]
Throw(type, what) == [error |-> [type |-> type, what |-> what], pred |-> NoPred]
Crashed == [error |-> Crash, pred |-> NoPred]

\* strings a read through a dangling or mistyped pointer may come up with
Garbage == {<<>>, <<"a", "b">>}

\* std::string::front() on the name: on an empty name it is outside the
\* contract; a hardened library stops there (TRUE), another reads the NUL
FrontStops(name) == IF name = <<>> THEN {TRUE, FALSE} ELSE {FALSE}

\* Value::GetString() on the definition's value: on a value that is no
\* string it is outside the contract; the build stops or reads garbage
ValueRead(val) ==
    IF IsString(val) THEN {[stops |-> FALSE, s |-> GetString(val)]}
    ELSE {[stops |-> TRUE, s |-> <<>>]}
         \cup {[stops |-> FALSE, s |-> g] : g \in Garbage}

-----------------------------------------------------------------------------
(* The builders.  Each gives the set of results the call can have: one      *)
(* result, or several where the call does something outside the contract   *)
(* of the library it uses.                                                  *)

\* getCompOpParameter had it kept the reference as written after the
\* anchor, without making a JSON pointer of it
getCompOpParameterRawReference(d) ==
    { IF stops THEN [error |-> Crash, field |-> <<>>,
                     refValue |-> None, value |-> None]
      ELSE IF ~IsString(d.value)
      THEN [error |-> [type |-> "logic_error",
                       what |-> "Invalid operator definition"],
            field |-> <<>>, refValue |-> None, value |-> None]
      ELSE LET field == formatJsonPath(d.name)
               parameters == split(GetString(d.value), "/")
           IN  IF Len(parameters) # 2
               THEN [error |-> [type |-> "runtime_error",
                                what |-> "Invalid number of parameters"],
                     field |-> <<>>, refValue |-> None, value |-> None]
               ELSE IF parameters[2] # <<>>
                       /\ parameters[2][1] = REFERENCE_ANCHOR
               THEN [error |-> NoError, field |-> field,
                     refValue |-> Some(Tail(parameters[2])),
                     value |-> None]
               ELSE [error |-> NoError, field |-> field,
                     refValue |-> None, value |-> Some(parameters[2])]
      : stops \in FrontStops(d.name) }

\* getCompOpParameter had it kept the token as the value beside the
\* reference made of it
getCompOpParameterKeepsToken(d) ==
    { IF stops THEN [error |-> Crash, field |-> <<>>,
                     refValue |-> None, value |-> None]
      ELSE IF ~IsString(d.value)
      THEN [error |-> [type |-> "logic_error",
                       what |-> "Invalid operator definition"],
            field |-> <<>>, refValue |-> None, value |-> None]
      ELSE LET field == formatJsonPath(d.name)
               parameters == split(GetString(d.value), "/")
           IN  IF Len(parameters) # 2
               THEN [error |-> [type |-> "runtime_error",
                                what |-> "Invalid number of parameters"],
                     field |-> <<>>, refValue |-> None, value |-> None]
               ELSE IF parameters[2] # <<>>
                       /\ parameters[2][1] = REFERENCE_ANCHOR
               THEN IF Tail(parameters[2]) = <<>> /\ refStops
                    THEN [error |-> Crash, field |-> <<>>,
                          refValue |-> None, value |-> None]
                    ELSE [error |-> NoError, field |-> field,
                          refValue |-> Some(formatJsonPath(Tail(parameters[2]))),
                          value |-> Some(parameters[2])]
               ELSE [error |-> NoError, field |-> field,
                     refValue |-> None, value |-> Some(parameters[2])]
      : stops \in FrontStops(d.name), refStops \in BOOLEAN }

\* getCompOpParameter : the field, and the reference or the value to
\* compare with
getCompOpParameter(d) ==
    { IF stops THEN [error |-> Crash, field |-> <<>>,
                     refValue |-> None, value |-> None]
      ELSE IF ~IsString(d.value)
      THEN [error |-> [type |-> "logic_error",
                       what |-> "Invalid operator definition"],
            field |-> <<>>, refValue |-> None, value |-> None]
      ELSE LET field == formatJsonPath(d.name)
               parameters == split(GetString(d.value), "/")
           IN  IF Len(parameters) # 2
               THEN [error |-> [type |-> "runtime_error",
                                what |-> "Invalid number of parameters"],
                     field |-> <<>>, refValue |-> None, value |-> None]
               ELSE IF parameters[2] # <<>>
                       /\ parameters[2][1] = REFERENCE_ANCHOR
               THEN IF Tail(parameters[2]) = <<>> /\ refStops
                    THEN [error |-> Crash, field |-> <<>>,
                          refValue |-> None, value |-> None]
                    ELSE [error |-> NoError, field |-> field,
                          refValue |-> Some(formatJsonPath(Tail(parameters[2]))),
                          value |-> None]
               ELSE [error |-> NoError, field |-> field,
                     refValue |-> None, value |-> Some(parameters[2])]
      : stops \in FrontStops(d.name), refStops \in BOOLEAN }

\* <key>: +exists
opBuilderHelperExists(d) ==
    { IF stops \/ raw.stops THEN Crashed
      ELSE LET field == formatJsonPath(d.name)
               parameters == split(raw.s, "/")
           IN  IF Len(parameters) # 1
               THEN Throw("runtime_error", "Invalid number of parameters")
               ELSE Built([NoPred EXCEPT
                        !.helper = "exists",
                        !.field = field,
                        !.successTrace = <<"{">> \o d.name \o 
                            <<":", " ", "+", "e", "x", "i", "s", "t", "s", "}", " ", "C", "o", "n", "d", "i", "t", "i", "o", "n", " ", "S", "u", "c", "c", "e", "s", "s">>,
                        !.failureTrace = <<"{">> \o d.name \o 
                            <<":", " ", "+", "e", "x", "i", "s", "t", "s", "}", " ", "C", "o", "n", "d", "i", "t", "i", "o", "n", " ", "F", "a", "i", "l", "u", "r", "e">>])
      : stops \in FrontStops(d.name), raw \in ValueRead(d.value) }

\* <key>: +not_exists
opBuilderHelperNotExists(d) ==
    { IF stops \/ raw.stops THEN Crashed
      ELSE LET field == formatJsonPath(d.name)
               parameters == split(raw.s, "/")
           IN  IF Len(parameters) # 1
               THEN Throw("runtime_error", "Invalid number of parameters")
               ELSE Built([NoPred EXCEPT
                        !.helper = "not_exists",
                        !.field = field,
                        !.successTrace = <<"{">> \o d.name \o 
                            <<":", " ", "+", "n", "o", "t", "_", "e", "x", "i", "s", "t", "s", "}", " ", "C", "o", "n", "d", "i", "t", "i", "o", "n", " ", "S", "u", "c", "c", "e", "s", "s">>,
                        !.failureTrace = <<"{">> \o d.name \o 
                            <<":", " ", "+", "n", "o", "t", "_", "e", "x", "i", "s", "t", "s", "}", " ", "C", "o", "n", "d", "i", "t", "i", "o", "n", " ", "F", "a", "i", "l", "u", "r", "e">>])
      : stops \in FrontStops(d.name), raw \in ValueRead(d.value) }

\* the body shared by the six string builders, which differ in the
\* operator character their lambda passes on
StringBuilder(d, name, op) ==
    { IF r.error # NoError THEN [error |-> r.error, pred |-> NoPred]
      ELSE Built([NoPred EXCEPT
               !.helper = name,
               !.field = r.field,
               !.op = op,
               !.refValue = r.refValue,
               !.value = r.value,
               !.successTrace = DefStr(d) \o SUCCESS_TRACE_MSG,
               !.failureTrace = DefStr(d) \o FAILURE_TRACE_MSG])
      : r \in getCompOpParameter(d) }

\* <key>: +s_eq/<value>
opBuilderHelperStringEq(d) == StringBuilder(d, "s_eq", "=")
\* <key>: +s_ne/<value>
opBuilderHelperStringNE(d) == StringBuilder(d, "s_ne", "!")
\* <key>: +s_gt/<value>|$<ref>
opBuilderHelperStringGT(d) == StringBuilder(d, "s_gt", ">")
\* <key>: +s_ge/<value>|$<ref>
opBuilderHelperStringGE(d) == StringBuilder(d, "s_ge", "g")
\* <key>: +s_lt/<value>|$<ref>
opBuilderHelperStringLT(d) == StringBuilder(d, "s_lt", "<")
\* <key>: +s_le/<value>|$<ref>
opBuilderHelperStringLE(d) == StringBuilder(d, "s_le", "l")

\* <key>: +s_eq_n/<n_chars>/<s2>
\* (the name of a member of a parsed document is always a string)
opBuilderHelperStringEqN(d) ==
    { IF stops THEN Crashed
      ELSE IF ~IsString(d.value)
      THEN Throw("runtime_error",
                 "Invalid parameter type for json_delete_fields operator (str expected).")
      ELSE LET key == formatJsonPath(d.name)
               parameters == split(GetString(d.value), "/")
           IN  IF 3 # Len(parameters)
               THEN Throw("runtime_error",
                         "Invalid number of parameters for s_eq_n operator (3 expected).")
               ELSE Built([NoPred EXCEPT
                        !.helper = "s_eq_n",
                        !.field = key,
                        !.n = atoi(parameters[2]),
                        !.parameter = parameters[3],
                        !.successTrace = DefStr(d) \o SUCCESS_TRACE_MSG,
                        !.failureTrace = DefStr(d) \o FAILURE_TRACE_MSG])
      : stops \in FrontStops(d.name) }

\* the body shared by the six integer builders
IntBuilder(d, name, op) ==
    { IF r.error # NoError THEN [error |-> r.error, pred |-> NoPred]
      ELSE LET parsed == IF r.value.has THEN stoi(r.value.v)
                         ELSE [thrown |-> "none", value |-> 0]
           IN  IF parsed.thrown # "none" THEN Throw(parsed.thrown, "stoi")
               ELSE Built([NoPred EXCEPT
                        !.helper = name,
                        !.field = r.field,
                        !.op = op,
                        !.refValue = r.refValue,
                        !.ivalue = IF r.value.has THEN SomeInt(parsed.value)
                                   ELSE NoInt,
                        !.successTrace = DefStr(d) \o SUCCESS_TRACE_MSG,
                        !.failureTrace = DefStr(d) \o FAILURE_TRACE_MSG])
      : r \in getCompOpParameter(d) }

\* field: +i_eq/int|$ref/
opBuilderHelperIntEqual(d) == IntBuilder(d, "i_eq", "=")
\* field: +i_ne/int|$ref/
opBuilderHelperIntNotEqual(d) == IntBuilder(d, "i_ne", "!")
\* field: +i_lt/int|$ref/
opBuilderHelperIntLessThan(d) == IntBuilder(d, "i_lt", "<")
\* field: +i_le/int|$ref/
opBuilderHelperIntLessThanEqual(d) == IntBuilder(d, "i_le", "l")
\* field: +i_gt/int|$ref/
opBuilderHelperIntGreaterThan(d) == IntBuilder(d, "i_gt", ">")
\* field: +i_ge/int|$ref/
opBuilderHelperIntGreaterThanEqual(d) == IntBuilder(d, "i_ge", "g")

\* field: +r_match/regexp
opBuilderHelperRegexMatch(d) ==
    { IF stops \/ raw.stops THEN Crashed
      ELSE LET field == formatJsonPath(d.name)
               parameters == split(raw.s, "/")
           IN  IF Len(parameters) # 2
               THEN Throw("invalid_argument", "Wrong number of arguments passed")
               ELSE IF ~RegexOk(parameters[2])
               THEN Throw("runtime_error", "Error compiling regex")
               ELSE Built([NoPred EXCEPT
                        !.helper = "r_match",
                        !.field = field,
                        !.regex = parameters[2]])
      : stops \in FrontStops(d.name), raw \in ValueRead(d.value) }

\* opBuilderHelperRegexNotMatch had it not tested regex_ptr->ok()
opBuilderHelperRegexNotMatchUnchecked(d) ==
    { IF stops \/ raw.stops THEN Crashed
      ELSE LET field == formatJsonPath(d.name)
               parameters == split(raw.s, "/")
           IN  IF Len(parameters) # 2
               THEN Throw("runtime_error", "Invalid number of parameters")
               ELSE Built([NoPred EXCEPT
                        !.helper = "r_not_match",
                        !.field = field,
                        !.regex = parameters[2],
                        !.successTrace = DefStr(d) \o SUCCESS_TRACE_MSG,
                        !.failureTrace = DefStr(d) \o FAILURE_TRACE_MSG])
      : stops \in FrontStops(d.name), raw \in ValueRead(d.value) }

\* field: +r_not_match/regexp
opBuilderHelperRegexNotMatch(d) ==
    { IF stops \/ raw.stops THEN Crashed
      ELSE LET field == formatJsonPath(d.name)
               parameters == split(raw.s, "/")
           IN  IF Len(parameters) # 2
               THEN Throw("runtime_error", "Invalid number of parameters")
               ELSE IF ~RegexOk(parameters[2])
               THEN Throw("runtime_error", "Error compiling regex")
               ELSE Built([NoPred EXCEPT
                        !.helper = "r_not_match",
                        !.field = field,
                        !.regex = parameters[2],
                        !.successTrace = DefStr(d) \o SUCCESS_TRACE_MSG,
                        !.failureTrace = DefStr(d) \o FAILURE_TRACE_MSG])
      : stops \in FrontStops(d.name), raw \in ValueRead(d.value) }

\* opBuilderHelperIPCIDR had it only refused fewer than three tokens
opBuilderHelperIPCIDRAtLeastThree(d) ==
    { IF stops \/ raw.stops THEN Crashed
      ELSE LET field == formatJsonPath(d.name)
               parameters == split(raw.s, "/")
           IN  IF Len(parameters) < 3
               THEN Throw("runtime_error", "Invalid number of parameters")
               ELSE IF parameters[3] = <<>>
               THEN Throw("runtime_error", "The network can't be empty")
               ELSE IF parameters[2] = <<>>
               THEN Throw("runtime_error", "The cidr can't be empty")
               ELSE LET network == IPv4ToUInt(parameters[2])
                        mask == IPv4MaskUInt(parameters[3])
                    IN  IF network.thrown # "none"
                        THEN Throw("runtime_error", "Invalid IPv4 address: ")
                        ELSE IF mask.thrown # "none"
                        THEN Throw("runtime_error", "Invalid IPv4 mask: ")
                        ELSE LET net_lower == U32And(network.value, mask.value)
                                 net_upper == U32Or(net_lower, U32Not(mask.value))
                             IN  Built([NoPred EXCEPT
                                     !.helper = "ip_cidr",
                                     !.field = field,
                                     !.net_lower = net_lower,
                                     !.net_upper = net_upper,
                                     !.successTrace = DefStr(d) \o SUCCESS_TRACE_MSG,
                                     !.failureTrace = DefStr(d) \o FAILURE_TRACE_MSG])
      : stops \in FrontStops(d.name), raw \in ValueRead(d.value) }

\* path_to_ip: +ip_cidr/192.168.0.0/16
\* path_to_ip: +ip_cidr/192.168.0.0/255.255.0.0
opBuilderHelperIPCIDR(d) ==
    { IF stops \/ raw.stops THEN Crashed
      ELSE LET field == formatJsonPath(d.name)
               parameters == split(raw.s, "/")
           IN  IF Len(parameters) # 3
               THEN Throw("runtime_error", "Invalid number of parameters")
               ELSE IF parameters[3] = <<>>
               THEN Throw("runtime_error", "The network can't be empty")
               ELSE IF parameters[2] = <<>>
               THEN Throw("runtime_error", "The cidr can't be empty")
               ELSE LET network == IPv4ToUInt(parameters[2])
                        mask == IPv4MaskUInt(parameters[3])
                    IN  IF network.thrown # "none"
                        THEN Throw("runtime_error", "Invalid IPv4 address: ")
                        ELSE IF mask.thrown # "none"
                        THEN Throw("runtime_error", "Invalid IPv4 mask: ")
                        ELSE LET net_lower == U32And(network.value, mask.value)
                                 net_upper == U32Or(net_lower, U32Not(mask.value))
                             IN  Built([NoPred EXCEPT
                                     !.helper = "ip_cidr",
                                     !.field = field,
                                     !.net_lower = net_lower,
                                     !.net_upper = net_upper,
                                     !.successTrace = DefStr(d) \o SUCCESS_TRACE_MSG,
                                     !.failureTrace = DefStr(d) \o FAILURE_TRACE_MSG])
      : stops \in FrontStops(d.name), raw \in ValueRead(d.value) }

-----------------------------------------------------------------------------
(* The predicates: the lambdas the builders return.  Each gives the set of  *)
(* outcomes one evaluation on event e can have.                             *)

\* what one evaluation did: the value returned, what escaped from it
\* ("none", the type of an exception, or "crash"), the tracer calls made
Outcome(r, x, t) == [ret |-> r, raised |-> x, trace |-> t]

Traced(p, holds) ==
    IF holds THEN Outcome(TRUE, "none", <<p.successTrace>>)
    ELSE Outcome(FALSE, "none", <<p.failureTrace>>)

opBuilderHelperExistsLambda(p, e) ==
    LET found == exists(e, p.field)
    IN  IF found.thrown # "none" THEN {Outcome(FALSE, found.thrown, <<>>)}
        ELSE {Traced(p, found.value)}

opBuilderHelperNotExistsLambda(p, e) ==
    LET found == exists(e, p.field)
    IN  IF found.thrown # "none" THEN {Outcome(FALSE, found.thrown, <<>>)}
        ELSE {Traced(p, ~found.value)}

\* the comparison an operator character selects, on the sign of a compare
Compare(op, c) ==
    CASE op = "=" -> c = 0
      [] op = "!" -> c # 0
      [] op = ">" -> c > 0
      [] op = "g" -> c >= 0
      [] op = "<" -> c < 0
      [] op = "l" -> c <= 0

\* the string comparison had a reference that is not found been taken as
\* a value differing from every string
opBuilderHelperStringComparisonRefDiffers(key, op, e, refValue, value) ==
    LET fieldToCompare == get(e, key)
    IN  IF fieldToCompare.thrown # "none" THEN FALSE
        ELSE IF ~IsString(fieldToCompare.value) THEN FALSE
        ELSE IF refValue.has
        THEN LET refValueToCheck == get(e, refValue.v)
             IN  IF refValueToCheck.thrown # "none" THEN op = "!"
                 ELSE IF ~IsString(refValueToCheck.value) THEN FALSE
                 ELSE Compare(op, StrCompare(GetString(fieldToCompare.value),
                                             GetString(refValueToCheck.value)))
        ELSE Compare(op, StrCompare(GetString(fieldToCompare.value), value.v))

opBuilderHelperStringComparison(key, op, e, refValue, value) ==
    LET fieldToCompare == get(e, key)
    IN  IF fieldToCompare.thrown # "none" THEN FALSE
        ELSE IF ~IsString(fieldToCompare.value) THEN FALSE
        ELSE IF refValue.has
        THEN LET refValueToCheck == get(e, refValue.v)
             IN  IF refValueToCheck.thrown # "none" THEN FALSE
                 ELSE IF ~IsString(refValueToCheck.value) THEN FALSE
                 ELSE Compare(op, StrCompare(GetString(fieldToCompare.value),
                                             GetString(refValueToCheck.value)))
        ELSE Compare(op, StrCompare(GetString(fieldToCompare.value), value.v))

StringLambda(p, e) ==
    {Traced(p, opBuilderHelperStringComparison(p.field, p.op, e,
                                               p.refValue, p.value))}

\* the order of two ints had they been compared as unsigned
IntCompareUnsigned(a, b) ==
    IF (a < 0) = (b < 0)
    THEN (IF a < b THEN -1 ELSE IF a > b THEN 1 ELSE 0)
    ELSE IF a < 0 THEN 1 ELSE -1

IntCompare(a, b) == IF a < b THEN -1 ELSE IF a > b THEN 1 ELSE 0

opBuilderHelperIntComparison(field, op, e, refValue, value) ==
    LET fieldValue == get(e, field)
    IN  IF fieldValue.thrown # "none" THEN FALSE
        ELSE IF ~IsInt(fieldValue.value) THEN FALSE
        ELSE IF refValue.has
        THEN LET refValueToCheck == get(e, refValue.v)
             IN  IF refValueToCheck.thrown # "none" THEN FALSE
                 ELSE IF ~IsInt(refValueToCheck.value) THEN FALSE
                 ELSE Compare(op, IntCompare(GetInt(fieldValue.value),
                                             GetInt(refValueToCheck.value)))
        ELSE Compare(op, IntCompare(GetInt(fieldValue.value), value.v))

IntLambda(p, e) ==
    {Traced(p, opBuilderHelperIntComparison(p.field, p.op, e,
                                            p.refValue, p.ivalue))}

\* getEventValue(path)->GetString() : on a value that is no string
\* GetString() is outside the contract; the evaluation stops, or the
\* std::string built from the pointer throws, or it holds garbage
StringReads(e, path) ==
    LET got == getEventValue(e, path)
    IN  IF got.thrown # "none"
        THEN {[status |-> "thrown", what |-> got.what, s |-> <<>>]}
        ELSE IF IsString(got.value)
        THEN {[status |-> "ok", what |-> <<>>, s |-> GetString(got.value)]}
        ELSE {[status |-> "stops", what |-> <<>>, s |-> <<>>],
              [status |-> "thrown", what |-> <<"n", "u", "l", "l", " ", "s", "t", "r", "i", "n", "g">>, s |-> <<>>]}
             \cup {[status |-> "ok", what |-> <<>>, s |-> g] : g \in Garbage}

\* the right-hand string of s_eq_n: the parameter, or the string it
\* refers to
StringEqNOperand(p, e) ==
    IF p.parameter # <<>> /\ REFERENCE_ANCHOR = p.parameter[1]
    THEN (IF Tail(p.parameter) = <<>>
          THEN {[status |-> "stops", what |-> <<>>, s |-> <<>>]}
          ELSE {})
         \cup StringReads(e, formatJsonPath(Tail(p.parameter)))
    ELSE {[status |-> "ok", what |-> <<>>, s |-> p.parameter]}

\* the end of the s_eq_n lambda had it cut only the event's string to n
StringEqNCompareOneSided(p, sourceString, s2) ==
    IF sourceString.status = "stops" THEN Outcome(FALSE, "crash", <<>>)
    ELSE IF sourceString.status = "thrown"
    THEN Outcome(FALSE, "none",
                 <<p.failureTrace \o <<":", " ">> \o sourceString.what>>)
    ELSE IF s2.status = "stops" THEN Outcome(FALSE, "crash", <<>>)
    ELSE IF s2.status = "thrown"
    THEN Outcome(FALSE, "none", <<p.failureTrace \o <<":", " ">> \o s2.what>>)
    ELSE Traced(p, SubstrN(sourceString.s, p.n) = s2.s)

\* the end of the lambda once both strings were read or one read failed
StringEqNCompare(p, sourceString, s2) ==
    IF sourceString.status = "stops" THEN Outcome(FALSE, "crash", <<>>)
    ELSE IF sourceString.status = "thrown"
    THEN Outcome(FALSE, "none",
                 <<p.failureTrace \o <<":", " ">> \o sourceString.what>>)
    ELSE IF s2.status = "stops" THEN Outcome(FALSE, "crash", <<>>)
    ELSE IF s2.status = "thrown"
    THEN Outcome(FALSE, "none", <<p.failureTrace \o <<":", " ">> \o s2.what>>)
    ELSE Traced(p, SubstrN(sourceString.s, p.n) = SubstrN(s2.s, p.n))

opBuilderHelperStringEqNLambda(p, e) ==
    { StringEqNCompare(p, sourceString, s2) :
        sourceString \in StringReads(e, p.field),
        s2 \in StringEqNOperand(p, e) }

\* the r_match lambda had it asked for a match of the whole string
opBuilderHelperRegexMatchLambdaFullMatch(p, e) ==
    LET field_str == get(e, p.field)
    IN  IF field_str.thrown # "none" THEN {Outcome(FALSE, "none", <<>>)}
        ELSE IF IsString(field_str.value)
        THEN {Outcome(/\ PartialMatch(GetString(field_str.value), p.regex)
                      /\ Len(GetString(field_str.value))
                            = Len(SelectSeq(p.regex,
                                            LAMBDA ch : ch \notin {"(", ")"})),
                      "none", <<>>)}
        ELSE {Outcome(FALSE, "none", <<>>)}

\* the lambda of r_match makes no tracer call
opBuilderHelperRegexMatchLambda(p, e) ==
    LET field_str == get(e, p.field)
    IN  IF field_str.thrown # "none" THEN {Outcome(FALSE, "none", <<>>)}
        ELSE IF IsString(field_str.value)
        THEN {Outcome(PartialMatch(GetString(field_str.value), p.regex),
                      "none", <<>>)}
        ELSE {Outcome(FALSE, "none", <<>>)}

\* the r_not_match lambda had it taken a field it cannot read for no match
opBuilderHelperRegexNotMatchLambdaAbsentTrue(p, e) ==
    LET field_str == get(e, p.field)
    IN  IF field_str.thrown # "none" THEN {Traced(p, TRUE)}
        ELSE IF IsString(field_str.value)
        THEN {Traced(p, ~PartialMatch(GetString(field_str.value), p.regex))}
        ELSE {Traced(p, FALSE)}

opBuilderHelperRegexNotMatchLambda(p, e) ==
    LET field_str == get(e, p.field)
    IN  IF field_str.thrown # "none" THEN {Traced(p, FALSE)}
        ELSE IF IsString(field_str.value)
        THEN {Traced(p, ~PartialMatch(GetString(field_str.value), p.regex))}
        ELSE {Traced(p, FALSE)}

\* the ip_cidr lambda had it left the lower bound out of the range
opBuilderHelperIPCIDRLambdaAboveLower(p, e) ==
    LET field_str == get(e, p.field)
    IN  IF field_str.thrown # "none" THEN {Traced(p, FALSE)}
        ELSE IF IsString(field_str.value)
        THEN LET ip == IPv4ToUInt(GetString(field_str.value))
             IN  IF ip.thrown # "none" THEN {Traced(p, FALSE)}
                 ELSE {Traced(p, /\ U32Leq(p.net_lower, ip.value)
                                 /\ p.net_lower # ip.value
                                 /\ U32Leq(ip.value, p.net_upper))}
        ELSE {Traced(p, FALSE)}

opBuilderHelperIPCIDRLambda(p, e) ==
    LET field_str == get(e, p.field)
    IN  IF field_str.thrown # "none" THEN {Traced(p, FALSE)}
        ELSE IF IsString(field_str.value)
        THEN LET ip == IPv4ToUInt(GetString(field_str.value))
             IN  IF ip.thrown # "none" THEN {Traced(p, FALSE)}
                 ELSE {Traced(p, /\ U32Leq(p.net_lower, ip.value)
                                 /\ U32Leq(ip.value, p.net_upper))}
        ELSE {Traced(p, FALSE)}

\* the captures of a lambda had s_eq_n's been mutable and kept the string
\* its reference resolved to in the captured parameter
CapturedKeepingResolved(p, e) ==
    IF /\ p.helper = "s_eq_n"
       /\ p.parameter # <<>>
       /\ p.parameter[1] = REFERENCE_ANCHOR
       /\ Tail(p.parameter) # <<>>
    THEN LET got == getEventValue(e, formatJsonPath(Tail(p.parameter)))
         IN  IF got.thrown = "none" /\ IsString(got.value)
             THEN [p EXCEPT !.parameter = GetString(got.value)]
             ELSE p
    ELSE p

\* the captures of a lambda after a call on e: every lambda captures by
\* copy ([=]) and is not mutable, and the comparison functions take the
\* reference and the value by value, so a call leaves the captures as they
\* were
Captured(p, e) == p

\* the event after a call of a lambda on it: the lambdas only call the
\* const members get and exists of its document
Inspected(p, e) == e

StringHelpers == {"s_eq", "s_ne", "s_gt", "s_ge", "s_lt", "s_le"}
IntHelpers == {"i_eq", "i_ne", "i_gt", "i_ge", "i_lt", "i_le"}

\* calling the std::function a builder returned
Call(p, e) ==
    CASE p.helper = "exists"      -> opBuilderHelperExistsLambda(p, e)
      [] p.helper = "not_exists"  -> opBuilderHelperNotExistsLambda(p, e)
      [] p.helper \in StringHelpers -> StringLambda(p, e)
      [] p.helper = "s_eq_n"      -> opBuilderHelperStringEqNLambda(p, e)
      [] p.helper \in IntHelpers  -> IntLambda(p, e)
      [] p.helper = "r_match"     -> opBuilderHelperRegexMatchLambda(p, e)
      [] p.helper = "r_not_match" -> opBuilderHelperRegexNotMatchLambda(p, e)
      [] p.helper = "ip_cidr"     -> opBuilderHelperIPCIDRLambda(p, e)

-----------------------------------------------------------------------------
(* The inputs: definitions handed to the builders, events evaluated *)

\* names of the definitions: a field, a nested field, a name whose '~'
\* makes the path no valid pointer, the empty name
Names == {<<"a">>, <<"a", ".", "s">>, <<"/", "a", ".", "s">>, <<"a", "~", "b">>, <<>>}

\* all sequences of at most k elements of T
SeqsUpTo(T, k) == UNION {[1..m -> T] : m \in 0..k}

\* the tokens that follow a complete argument list
ExtraTokens == {<<>>, <<"a", "b">>}

\* the definitions tried for an operator of the given token count: every
\* name with the operator symbol followed by up to arity - 1 tokens of T
\* and then up to MaxExtra more tokens, and one definition whose value is
\* a number
DefsFor(symbol, T, arity) ==
    {Def(name, Str(Join(<<symbol>> \o args \o extra))) :
        name \in Names, args \in SeqsUpTo(T, arity - 1),
        extra \in SeqsUpTo(ExtraTokens, MaxExtra)}
    \cup {Def(<<"a">>, Num(<<"5">>))}

ExistsTokens == {<<>>, <<"a", "b">>}
StringTokens == {<<>>, <<"a", "b">>, <<"a", "b", "c", "d", "e", "f">>, <<"$", "b">>, <<"$", "g">>, <<"$", "a", ".", "s">>, <<"$", "a", "~", "b">>, <<"$">>}
StringEqNTokens == {<<"0">>, <<"3">>, <<"-", "1">>, <<"3", "x">>, <<"a", "b", "c">>, <<"a", "b", "c", "d", "e", "f">>, <<"$", "b">>, <<"$">>}
IntTokens == {<<>>, <<"5">>, <<"-", "1">>, <<"a", "b", "c">>, <<"1", "2", "a", "b", "c">>, <<"2", "1", "4", "7", "4", "8", "3", "6", "4", "8">>, <<"$", "b">>}
RegexTokens == {<<>>, <<"a", "b">>, <<"b">>, <<"a", ".", "c">>, <<"(", "a", "b">>, <<"(", "a", ")", "b">>}
CidrTokens == {<<>>, <<"1", "0", ".", "0", ".", "0", ".", "0">>, <<"1", "9", "2", ".", "1", "6", "8", ".", "0", ".", "0">>, <<"2", "5", "5", ".", "2", "5", "5", ".", "0", ".", "0">>,
               <<"0">>, <<"8">>, <<"3", "2">>, <<"a", "b">>}

\* the events evaluated (the root of each is an object)
Events ==
    << Obj(<<>>),
       Obj(<<"a">> :> Str(<<"a", "b">>) @@ <<"b">> :> Str(<<"a", "b", "c", "d", "e", "f">>) @@ <<>> :> Str(<<"a", "b">>)),
       Obj(<<"a">> :> Str(<<"a", "b", "z">>) @@ <<"b">> :> Str(<<"a", "b", "c", "d", "e", "f">>)),
       Obj(<<"a">> :> Str(<<"a", "b", "c", "x", "y", "z">>) @@ <<"b">> :> Str(<<"a", "b", "c", "d", "e", "f">>)),
       Obj(<<"a">> :> Str(<<"x">>) @@ <<"g">> :> Str(<<"$", "a">>)),
       Obj(<<"a">> :> Str(<<"a", "b">>) @@ <<"g">> :> Str(<<"a", "/", "b">>) @@ <<"b">> :> Str(<<>>)),
       Obj(<<"a">> :> Num(<<"5">>) @@ <<"b">> :> Num(<<"5">>)),
       Obj(<<"a">> :> Num(<<"4">>) @@ <<"b">> :> Num(<<"5">>)),
       Obj(<<"a">> :> Str(<<"4">>) @@ <<"b">> :> Num(<<"5">>)),
       Obj(<<"a">> :> Num(<<"-", "1">>) @@ <<"b">> :> Num(<<"2", "1", "4", "7", "4", "8", "3", "6", "4", "8">>)),
       Obj(<<"a">> :> Num(<<"2", "1", "4", "7", "4", "8", "3", "6", "4", "8">>) @@ <<"b">> :> Num(<<"5">>)),
       Obj(<<"a">> :> Null @@ <<"b">> :> Num(<<"1", ".", "5">>)),
       Obj(<<"a">> :> Obj(<<"s">> :> Str(<<"a", "b">>)) @@ <<"b">> :> Arr(<<Str(<<"a", "b">>)>>)),
       Obj(<<"a">> :> Str(<<"1", "0", ".", "0", ".", "0", ".", "1">>) @@ <<"b">> :> Str(<<"a", "b">>)),
       Obj(<<"a">> :> Str(<<"1", "9", "2", ".", "1", "6", "8", ".", "7", ".", "4", "2">>)),
       Obj(<<"a">> :> Str(<<"1", "0", ".", "0", ".", "0", ".", "2", "5", "6">>) @@ <<"b">> :> Null),
       Obj(<<"a">> :> Str(<<"1", "0", ".", "0", ".", "0", ".", "0">>)),
       Obj(<<"a">> :> Num(<<"1", ".", "5">>) @@ <<"b">> :> Num(<<"5">>)) >>

-----------------------------------------------------------------------------
(* The state machine: one builder is called once; the predicate it returns  *)
(* is then evaluated on events, any number of times                         *)

Workers == 1..MaxWorkers

\* a worker that is in no evaluation and has finished none
IdleWorker ==
    [pc |-> "idle", event |-> 0, doc |-> Obj(<<>>),
     ret |-> FALSE, raised |-> "none", trace |-> <<>>]

\* no member of the Document was called yet
NoCall ==
    [op |-> "none", path |-> <<>>, from |-> <<>>, value |-> Null,
     ret |-> FALSE, thrown |-> "none", before |-> Null, n |-> 0]

Init ==
    /\ phase = "idle"
    /\ helper = "none"
    /\ def = Def(<<>>, Str(<<>>))
    /\ error = NoError
    /\ pred = NoPred
    /\ event = 0
    /\ ret = FALSE
    /\ raised = "none"
    /\ trace = <<>>
    /\ work = [w \in Workers |-> IdleWorker]
    /\ m_doc = Null
    /\ call = NoCall

\* the call of a builder on definition d with result r
Build(name, d, r) ==
    /\ phase = "idle"
    /\ helper' = name
    /\ def' = d
    /\ error' = r.error
    /\ pred' = r.pred
    /\ phase' = IF r.error = NoError THEN "built" ELSE "failed"
    /\ UNCHANGED <<event, ret, raised, trace, work, m_doc, call>>

BuildExists ==
    \E d \in DefsFor(<<"+", "e", "x", "i", "s", "t", "s">>, ExistsTokens, 1) :
        \E r \in opBuilderHelperExists(d) : Build("exists", d, r)
BuildNotExists ==
    \E d \in DefsFor(<<"+", "n", "o", "t", "_", "e", "x", "i", "s", "t", "s">>, ExistsTokens, 1) :
        \E r \in opBuilderHelperNotExists(d) : Build("not_exists", d, r)
BuildStringEq ==
    \E d \in DefsFor(<<"+", "s", "_", "e", "q">>, StringTokens, 2) :
        \E r \in opBuilderHelperStringEq(d) : Build("s_eq", d, r)
BuildStringNE ==
    \E d \in DefsFor(<<"+", "s", "_", "n", "e">>, StringTokens, 2) :
        \E r \in opBuilderHelperStringNE(d) : Build("s_ne", d, r)
BuildStringGT ==
    \E d \in DefsFor(<<"+", "s", "_", "g", "t">>, StringTokens, 2) :
        \E r \in opBuilderHelperStringGT(d) : Build("s_gt", d, r)
BuildStringGE ==
    \E d \in DefsFor(<<"+", "s", "_", "g", "e">>, StringTokens, 2) :
        \E r \in opBuilderHelperStringGE(d) : Build("s_ge", d, r)
BuildStringLT ==
    \E d \in DefsFor(<<"+", "s", "_", "l", "t">>, StringTokens, 2) :
        \E r \in opBuilderHelperStringLT(d) : Build("s_lt", d, r)
BuildStringLE ==
    \E d \in DefsFor(<<"+", "s", "_", "l", "e">>, StringTokens, 2) :
        \E r \in opBuilderHelperStringLE(d) : Build("s_le", d, r)
BuildStringEqN ==
    \E d \in DefsFor(<<"+", "s", "_", "e", "q", "_", "n">>, StringEqNTokens, 3) :
        \E r \in opBuilderHelperStringEqN(d) : Build("s_eq_n", d, r)
BuildIntEqual ==
    \E d \in DefsFor(<<"+", "i", "_", "e", "q">>, IntTokens, 2) :
        \E r \in opBuilderHelperIntEqual(d) : Build("i_eq", d, r)
BuildIntNotEqual ==
    \E d \in DefsFor(<<"+", "i", "_", "n", "e">>, IntTokens, 2) :
        \E r \in opBuilderHelperIntNotEqual(d) : Build("i_ne", d, r)
BuildIntLessThan ==
    \E d \in DefsFor(<<"+", "i", "_", "l", "t">>, IntTokens, 2) :
        \E r \in opBuilderHelperIntLessThan(d) : Build("i_lt", d, r)
BuildIntLessThanEqual ==
    \E d \in DefsFor(<<"+", "i", "_", "l", "e">>, IntTokens, 2) :
        \E r \in opBuilderHelperIntLessThanEqual(d) : Build("i_le", d, r)
BuildIntGreaterThan ==
    \E d \in DefsFor(<<"+", "i", "_", "g", "t">>, IntTokens, 2) :
        \E r \in opBuilderHelperIntGreaterThan(d) : Build("i_gt", d, r)
BuildIntGreaterThanEqual ==
    \E d \in DefsFor(<<"+", "i", "_", "g", "e">>, IntTokens, 2) :
        \E r \in opBuilderHelperIntGreaterThanEqual(d) : Build("i_ge", d, r)
BuildRegexMatch ==
    \E d \in DefsFor(<<"+", "r", "_", "m", "a", "t", "c", "h">>, RegexTokens, 2) :
        \E r \in opBuilderHelperRegexMatch(d) : Build("r_match", d, r)
BuildRegexNotMatch ==
    \E d \in DefsFor(<<"+", "r", "_", "n", "o", "t", "_", "m", "a", "t", "c", "h">>, RegexTokens, 2) :
        \E r \in opBuilderHelperRegexNotMatch(d) : Build("r_not_match", d, r)
BuildIPCIDR ==
    \E d \in DefsFor(<<"+", "i", "p", "_", "c", "i", "d", "r">>, CidrTokens, 3) :
        \E r \in opBuilderHelperIPCIDR(d) : Build("ip_cidr", d, r)

\* one evaluation of the predicate on one event; a crashed process
\* evaluates nothing more
Evaluate ==
    /\ phase \in {"built", "evaluated"}
    /\ raised # "crash"
    /\ \E i \in 1..Len(Events) : \E o \in Call(pred, Events[i]) :
          /\ event' = i
          /\ ret' = o.ret
          /\ raised' = o.raised
          /\ trace' = o.trace
          /\ pred' = Captured(pred, Events[i])
    /\ phase' = "evaluated"
    /\ UNCHANGED <<helper, def, error, work, m_doc, call>>

Next ==
    \/ BuildExists
    \/ BuildNotExists
    \/ BuildStringEq
    \/ BuildStringNE
    \/ BuildStringGT
    \/ BuildStringGE
    \/ BuildStringLT
    \/ BuildStringLE
    \/ BuildStringEqN
    \/ BuildIntEqual
    \/ BuildIntNotEqual
    \/ BuildIntLessThan
    \/ BuildIntLessThanEqual
    \/ BuildIntGreaterThan
    \/ BuildIntGreaterThanEqual
    \/ BuildRegexMatch
    \/ BuildRegexNotMatch
    \/ BuildIPCIDR
    \/ Evaluate

Spec == Init /\ [][Next]_vars

-----------------------------------------------------------------------------
(* What the claims speak of, read off the definition, the event and the    *)
(* outcome of the evaluation                                               *)

Evaluated == phase = "evaluated"

\* the event of the last evaluation
E == Events[event]

\* the number of '/'-separated tokens of a string
TokenCount(s) == 1 + Cardinality({i \in 1..Len(s) : s[i] = "/"})

Tokens == split(GetString(def.value), "/")

\* the last token: the argument of a comparison
ArgToken == Tokens[Len(Tokens)]

IsRef(t) == t # <<>> /\ t[1] = "$"

\* an optional sign and then digits, nothing else
IsDecimal(t) ==
    LET start == IF t # <<>> /\ t[1] \in {"-", "+"} THEN 2 ELSE 1
    IN  /\ Len(t) >= start
        /\ DigitRun(t, start) = Len(t) - start + 1

ExistsHelpers == {"exists", "not_exists"}
RegexHelpers == {"r_match", "r_not_match"}
RefHelpers == StringHelpers \cup IntHelpers \cup {"s_eq_n"}

\* the token count each operator takes
Arity(h) ==
    IF h \in ExistsHelpers THEN 1
    ELSE IF h \in {"s_eq_n", "ip_cidr"} THEN 3
    ELSE 2

\* the builder registered for an operator
BuilderOf(h, d) ==
    CASE h = "exists"      -> opBuilderHelperExists(d)
      [] h = "not_exists"  -> opBuilderHelperNotExists(d)
      [] h = "s_eq"        -> opBuilderHelperStringEq(d)
      [] h = "s_ne"        -> opBuilderHelperStringNE(d)
      [] h = "s_gt"        -> opBuilderHelperStringGT(d)
      [] h = "s_ge"        -> opBuilderHelperStringGE(d)
      [] h = "s_lt"        -> opBuilderHelperStringLT(d)
      [] h = "s_le"        -> opBuilderHelperStringLE(d)
      [] h = "s_eq_n"      -> opBuilderHelperStringEqN(d)
      [] h = "i_eq"        -> opBuilderHelperIntEqual(d)
      [] h = "i_ne"        -> opBuilderHelperIntNotEqual(d)
      [] h = "i_lt"        -> opBuilderHelperIntLessThan(d)
      [] h = "i_le"        -> opBuilderHelperIntLessThanEqual(d)
      [] h = "i_gt"        -> opBuilderHelperIntGreaterThan(d)
      [] h = "i_ge"        -> opBuilderHelperIntGreaterThanEqual(d)
      [] h = "r_match"     -> opBuilderHelperRegexMatch(d)
      [] h = "r_not_match" -> opBuilderHelperRegexNotMatch(d)
      [] h = "ip_cidr"     -> opBuilderHelperIPCIDR(d)

\* the value of the kind the operator compares
KindOk(h, val) == IF h \in IntHelpers THEN IsInt(val) ELSE IsString(val)

\* the lookup of the definition's field in the event
FieldLookup == get(E, formatJsonPath(def.name))

FieldTyped == FieldLookup.thrown = "none" /\ KindOk(helper, FieldLookup.value)

\* the lookup of the field the argument refers to
RefLookup == get(E, formatJsonPath(Tail(ArgToken)))

RefTyped == RefLookup.thrown = "none" /\ KindOk(helper, RefLookup.value)

\* the right-hand side resolves: a literal always, a reference when typed
RhsTyped == IsRef(ArgToken) => RefTyped

\* the right-hand string of a string comparison
RhsString == IF IsRef(ArgToken) THEN GetString(RefLookup.value) ELSE ArgToken

\* the right-hand integer of an integer comparison
RhsInt ==
    IF IsRef(ArgToken) THEN GetInt(RefLookup.value) ELSE stoi(ArgToken).value

SuccessEmitted == \E i \in 1..Len(trace) : trace[i] = pred.successTrace

IsPrefix(p, s) == Len(p) <= Len(s) /\ SubSeq(s, 1, Len(p)) = p

\* the failure label, possibly with a cause appended
FailureEmitted ==
    /\ pred.failureTrace # <<>>
    /\ \E i \in 1..Len(trace) : IsPrefix(pred.failureTrace, trace[i])

Min(a, b) == IF a < b THEN a ELSE b

-----------------------------------------------------------------------------
(* C1 *)

\* C1: every evaluation of a compiled predicate, of any operator on any
\* event, has called the tracer exactly once when it returns.
C1_TracedExactlyOnce == Evaluated /\ raised = "none" => Len(trace) = 1

-----------------------------------------------------------------------------
(* C2 *)

\* C2: an evaluation emits the success label iff it returns true, and one
\* that returns false emits the failure label and never the success label.
C2_SuccessLabelIffTrue ==
    Evaluated /\ raised = "none" =>
        /\ SuccessEmitted <=> ret
        /\ ~ret => FailureEmitted /\ ~SuccessEmitted

-----------------------------------------------------------------------------
(* C3 *)

\* the evaluation cannot obtain its typed value from the event: the path
\* is rejected, the field or the referenced field is missing or of another
\* kind, the subject of ip_cidr is no IPv4 address
ObtainFails ==
    \/ ~Pointer(formatJsonPath(def.name)).valid
    \/ helper \notin ExistsHelpers /\ ~FieldTyped
    \/ helper \in RefHelpers /\ ~RhsTyped
    \/ /\ helper = "ip_cidr"
       /\ FieldTyped
       /\ IPv4ToUInt(GetString(FieldLookup.value)).thrown # "none"

\* C3: no evaluation lets an exception escape or stops the process; when
\* the typed value cannot be obtained the result is false with the failure
\* trace.
C3_NeverRaises ==
    Evaluated =>
        /\ raised = "none"
        /\ ObtainFails => ~ret /\ FailureEmitted

-----------------------------------------------------------------------------
(* C4 *)

\* an s_eq_n predicate was evaluated on an event whose field is a string
\* and whose right-hand side is a string, with a count that is not negative
StringEqNCase ==
    /\ Evaluated
    /\ raised = "none"
    /\ helper = "s_eq_n"
    /\ pred.n >= 0
    /\ FieldTyped
    /\ RhsTyped

-----------------------------------------------------------------------------
(* C5 *)

\* the field's path is valid and nothing is there
FieldAbsent ==
    /\ Pointer(formatJsonPath(def.name)).valid
    /\ ~exists(E, formatJsonPath(def.name)).value

-----------------------------------------------------------------------------
(* C6 *)

\* the text of a value as a definition would write it
Text(val) == val.v

\* the definition with the reference replaced by the text of the value it
\* refers to
LiteralDef ==
    Def(def.name,
        Str(Join(SubSeq(Tokens, 1, Len(Tokens) - 1)
                 \o <<Text(RefLookup.value)>>)))

\* a comparison with a reference was evaluated on an event in which the
\* field and the referenced field are both of the operator's kind
ReferenceCase ==
    /\ Evaluated
    /\ raised = "none"
    /\ helper \in RefHelpers
    /\ IsRef(ArgToken)
    /\ FieldTyped
    /\ RefTyped

\* the predicate built from the literal definition exists and returns, on
\* the same event, what the predicate with the reference returned
\* (a library that stops on the empty name stops both builds)
LiteralAgrees ==
    \A r \in BuilderOf(helper, LiteralDef) :
        r.error # Crash =>
            /\ r.error = NoError
            /\ \A o \in Call(r.pred, E) : o.raised = "none" /\ o.ret = ret

\* C6 as stated: {f: "+op/$g"} and {f: "+op/<text of E.g>"} return the
\* same on E whenever E.f and E.g are of the operator's kind.
C6_ReferenceSymmetry == ReferenceCase => LiteralAgrees

\* C6 as amended: the same, when the text of E.g has no '/' and does not
\* begin with '$'.
C6_ReferenceSymmetryPlainText ==
    /\ ReferenceCase
    /\ Find(Text(RefLookup.value), "/", 1) = 0
    /\ ~IsRef(Text(RefLookup.value))
    => LiteralAgrees

\* i_ge with a reference was evaluated on two equal integers and returned
\* true
C6_Witness ==
    /\ ReferenceCase
    /\ helper = "i_ge"
    /\ GetInt(FieldLookup.value) = GetInt(RefLookup.value)
    /\ ret

-----------------------------------------------------------------------------
(* C7 *)

\* a builder was called on a definition whose value is a string
BuilderCalled == phase # "idle" /\ IsString(def.value)

\* the tokens after the operator symbol are ones the operator accepts
ValidTokens ==
    CASE helper \in ExistsHelpers -> TRUE
      [] helper \in StringHelpers -> TRUE
      [] helper = "s_eq_n" -> IsDecimal(Tokens[2])
      [] helper \in IntHelpers ->
            \/ IsRef(ArgToken)
            \/ IsDecimal(ArgToken) /\ ScanInt(ArgToken).inRange
      [] helper \in RegexHelpers -> RegexOk(ArgToken)
      [] helper = "ip_cidr" ->
            /\ IPv4ToUInt(Tokens[2]).thrown = "none"
            /\ IPv4MaskUInt(Tokens[3]).thrown = "none"

-----------------------------------------------------------------------------
(* C8 *)

\* the definition gives s_eq_n a count, or an integer operator a literal,
\* that is no decimal integer
UnparsableInteger ==
    /\ BuilderCalled
    /\ TokenCount(GetString(def.value)) = Arity(helper)
    /\ \/ helper = "s_eq_n" /\ ~IsDecimal(Tokens[2])
       \/ helper \in IntHelpers /\ ~IsRef(ArgToken) /\ ~IsDecimal(ArgToken)

\* C8: a count of s_eq_n or a literal of an integer operator that is no
\* decimal integer fails at build and gives no predicate.
C8_UnparsableIntegerFails ==
    UnparsableInteger => error # NoError /\ pred = NoPred

-----------------------------------------------------------------------------
(* C9 *)

\* what each regex builder throws on a wrong token count
ArityError(h) ==
    IF h = "r_match"
    THEN [type |-> "invalid_argument", what |-> "Wrong number of arguments passed"]
    ELSE [type |-> "runtime_error", what |-> "Invalid number of parameters"]

\* C9: r_match and r_not_match fail at build on a regex that does not
\* compile, with a runtime_error that is not the token-count error, and
\* give no predicate; no evaluation of a regex predicate raises.
C9_RegexCompiledAtBuild ==
    /\ /\ BuilderCalled
       /\ helper \in RegexHelpers
       /\ TokenCount(GetString(def.value)) = 2
       /\ ~RegexOk(ArgToken)
       /\ error # Crash
       => /\ error.type = "runtime_error"
          /\ error # ArityError(helper)
          /\ pred = NoPred
    /\ Evaluated /\ helper \in RegexHelpers => raised = "none"

\* r_not_match was given a regex with an open group and threw
C9_Witness ==
    /\ BuilderCalled
    /\ helper = "r_not_match"
    /\ TokenCount(GetString(def.value)) = 2
    /\ ~RegexOk(ArgToken)
    /\ error.type = "runtime_error"
    /\ pred = NoPred

-----------------------------------------------------------------------------
(* C10 *)

\* C10: r_match built from "+r_match/" (nothing after the '/') fails with
\* invalid_argument and compiles no predicate with an empty regex.
C10_EmptyRegexArgumentFails ==
    /\ BuilderCalled
    /\ helper = "r_match"
    /\ GetString(def.value) = <<"+", "r", "_", "m", "a", "t", "c", "h", "/">>
    /\ error # Crash
    => error.type = "invalid_argument" /\ pred = NoPred

-----------------------------------------------------------------------------
(* C11 *)

\* C11: a builder called on a definition whose value is no string fails
\* with an error of its own, builds no predicate and does not read the
\* value as a string.
C11_ShapeErrorOnNonString ==
    phase # "idle" /\ ~IsString(def.value) =>
        /\ error \notin {NoError, Crash}
        /\ pred = NoPred

-----------------------------------------------------------------------------
(* C12 *)

\* a regex predicate was evaluated
RegexCase == Evaluated /\ helper \in RegexHelpers

\* the regex is plain text: no group, no wildcard
PlainRegex == \A i \in 1..Len(pred.regex) : pred.regex[i] \notin {"(", ")", "."}

\* the plain text t occurs somewhere in s
Occurs(t, s) ==
    \E i \in 0..(Len(s) - Len(t)) : SubSeq(s, i + 1, i + Len(t)) = t

\* C12: r_match is true iff the field holds a string the regex matches
\* somewhere in, r_not_match iff it holds a string the regex matches
\* nowhere in; on a missing field or one that holds no string both are
\* false.
C12_RegexPartialMatch ==
    RegexCase =>
        LET matched == /\ FieldTyped
                       /\ PartialMatch(GetString(FieldLookup.value), pred.regex)
        IN  /\ raised = "none"
            /\ helper = "r_match" => (ret <=> matched)
            /\ helper = "r_not_match" => (ret <=> FieldTyped /\ ~matched)
            /\ ~FieldTyped => ~ret
            /\ FieldTyped /\ PlainRegex =>
                  (matched <=> Occurs(pred.regex, GetString(FieldLookup.value)))

\* r_match/b was evaluated on a field holding "abz" and returned true
C12_Witness ==
    /\ RegexCase
    /\ helper = "r_match"
    /\ pred.regex = <<"b">>
    /\ FieldTyped
    /\ GetString(FieldLookup.value) = <<"a", "b", "z">>
    /\ ret

-----------------------------------------------------------------------------
(* C13 *)

\* an ip_cidr predicate was evaluated
CidrCase == Evaluated /\ helper = "ip_cidr"

\* the network and the mask of the definition
CidrNetwork == IPv4ToUInt(Tokens[2]).value
CidrMask == IPv4MaskUInt(Tokens[3]).value

\* the field holds a string that is a dotted-quad address
SubjectParses ==
    /\ FieldTyped
    /\ IPv4ToUInt(GetString(FieldLookup.value)).thrown = "none"

SubjectIp == IPv4ToUInt(GetString(FieldLookup.value)).value

\* the mask token is a prefix length
PrefixGiven == Find(Tokens[3], ".", 1) = 0

\* the first len bits of the addresses x and y are the same
SamePrefix(x, y, len) ==
    \A i \in 1..4 :
        LET kept == IF len >= 8 * i THEN 8
                    ELSE IF len <= 8 * (i - 1) THEN 0
                    ELSE len - 8 * (i - 1)
        IN  x[i] \div Pow2(8 - kept) = y[i] \div Pow2(8 - kept)

\* C13: ip_cidr holds lo = N & M and hi = lo | ~M and is true iff the
\* field is a string that parses as an IPv4 address ip with lo <= ip <= hi;
\* with a prefix length these are the addresses that share the prefix with
\* N: all of them for /0, N alone for /32.
C13_CidrContainment ==
    CidrCase =>
        /\ raised = "none"
        /\ pred.net_lower = U32And(CidrNetwork, CidrMask)
        /\ pred.net_upper = U32Or(pred.net_lower, U32Not(CidrMask))
        /\ ret <=> /\ SubjectParses
                   /\ U32Leq(pred.net_lower, SubjectIp)
                   /\ U32Leq(SubjectIp, pred.net_upper)
        /\ PrefixGiven /\ SubjectParses =>
              (ret <=> SamePrefix(SubjectIp, CidrNetwork, DigitsValue(Tokens[3])))
        /\ PrefixGiven /\ SubjectParses /\ DigitsValue(Tokens[3]) = 0 => ret
        /\ PrefixGiven /\ SubjectParses /\ DigitsValue(Tokens[3]) = 32 =>
              (ret <=> SubjectIp = CidrNetwork)

\* ip_cidr/10.0.0.0/32 was evaluated on the address 10.0.0.0 and returned
\* true
C13_Witness ==
    /\ CidrCase
    /\ PrefixGiven
    /\ DigitsValue(Tokens[3]) = 32
    /\ SubjectParses
    /\ SubjectIp = CidrNetwork
    /\ ret

-----------------------------------------------------------------------------
(* C14 *)

\* an integer comparison was evaluated
IntCase == Evaluated /\ helper \in IntHelpers

\* a JSON number written as an integer (every one tried fits 64 bits)
IsInteger(val) == val.kind = "number" /\ IsDecimal(val.v)

\* the signed order of two decimal texts: -1, 0 or 1
SignedCompare(x, y) ==
    LET sx == ScanInt(x)
        sy == ScanInt(y)
        c  == IF sx.mag = sy.mag THEN 0
              ELSE IF MagnitudeLeq(sx.mag, sy.mag) THEN -1 ELSE 1
    IN  IF sx.neg /\ ~sy.neg THEN -1
        ELSE IF ~sx.neg /\ sy.neg THEN 1
        ELSE IF sx.neg THEN 0 - c ELSE c

\* the comparison an integer operator stands for, on the sign of a compare
OpHolds(h, c) ==
    CASE h = "i_eq" -> c = 0
      [] h = "i_ne" -> c # 0
      [] h = "i_lt" -> c < 0
      [] h = "i_le" -> c <= 0
      [] h = "i_gt" -> c > 0
      [] h = "i_ge" -> c >= 0

\* the text of the right-hand integer
RhsText == IF IsRef(ArgToken) THEN RefLookup.value.v ELSE ArgToken

\* the comparison is true iff both operands are accepted by Accepts and
\* stand in the operator's signed order
ComparesBy(Accepts(_)) ==
    ret <=> /\ FieldLookup.thrown = "none"
            /\ Accepts(FieldLookup.value)
            /\ IsRef(ArgToken) =>
                  RefLookup.thrown = "none" /\ Accepts(RefLookup.value)
            /\ OpHolds(helper, SignedCompare(FieldLookup.value.v, RhsText))

\* an integer builder was called with a decimal literal
IntLiteralCase ==
    /\ BuilderCalled
    /\ helper \in IntHelpers
    /\ TokenCount(GetString(def.value)) = 2
    /\ IsDecimal(ArgToken)
    /\ error # Crash

-----------------------------------------------------------------------------
(* C15 *)

\* the event has a value, null included, at the field's canonical path
HasField ==
    LET ptr == Pointer(formatJsonPath(def.name))
    IN  ptr.valid /\ PointerGet(ptr.tokens, E).found

\* C15: on every field and event exists returns true iff the event has a
\* value at the field's canonical path, a null included, and not_exists
\* returns the negation.
C15_ExistsIffPresent ==
    Evaluated /\ helper \in ExistsHelpers =>
        /\ raised = "none"
        /\ helper = "exists" => (ret <=> HasField)
        /\ helper = "not_exists" => (ret <=> ~HasField)

-----------------------------------------------------------------------------
(* C16 *)

\* the normalisation as the rule states it: '/' put in front unless the
\* first byte is '/', then every '.' made a '/'
Normalised(p) ==
    LET q == IF p # <<>> /\ p[1] = "/" THEN p ELSE <<"/">> \o p
    IN  [i \in 1..Len(q) |-> IF q[i] = "." THEN "/" ELSE q[i]]

\* the paths a built predicate holds and the strings they were made from
PathsMade ==
    {<<def.name, pred.field>>}
    \cup (IF pred.refValue.has
          THEN {<<Tail(ArgToken), pred.refValue.v>>}
          ELSE {})

\* C16: formatJsonPath gives, for every string and the empty one too, the
\* string with '/' in front unless it begins with '/', and '/' for every
\* '.'; the empty string gives "/".
C16_PathNormalised ==
    BuilderCalled =>
        /\ error # Crash
        /\ error = NoError =>
              \A pq \in PathsMade : pq[2] = Normalised(pq[1])

-----------------------------------------------------------------------------
(* C17 *)

\* C17: normalising a normalised path changes nothing: every path a
\* predicate holds is the path formatJsonPath makes of it again, and
\* front() is within its contract on it.
C17_NormaliseIdempotent ==
    BuilderCalled /\ error = NoError =>
        \A pq \in PathsMade :
            /\ FrontStops(pq[2]) = {FALSE}
            /\ formatJsonPath(pq[2]) = pq[2]
            /\ formatJsonPath(formatJsonPath(pq[1])) = formatJsonPath(pq[1])

\* a predicate was built on the name "a.s" and holds the path "/a/s"
C17_Witness ==
    /\ BuilderCalled
    /\ error = NoError
    /\ def.name = <<"a", ".", "s">>
    /\ pred.field = <<"/", "a", "/", "s">>

-----------------------------------------------------------------------------
(* C18 *)

\* the two labels of the built predicate are the definition as compact
\* JSON followed by the given endings
LabelsFollow(success, failure) ==
    /\ pred.successTrace = DefStr(def) \o success
    /\ pred.failureTrace = DefStr(def) \o failure

\* C18: the two labels of every built predicate, of whatever operator, are
\* the definition rendered as compact JSON followed by " Condition Success"
\* and " Condition Failure" (the final period of the source's template is
\* let pass).
C18_OneTraceConvention ==
    BuilderCalled /\ error = NoError =>
        \/ LabelsFollow(<<" ", "C", "o", "n", "d", "i", "t", "i", "o", "n", " ", "S", "u", "c", "c", "e", "s", "s">>, <<" ", "C", "o", "n", "d", "i", "t", "i", "o", "n", " ", "F", "a", "i", "l", "u", "r", "e">>)
        \/ LabelsFollow(SUCCESS_TRACE_MSG, FAILURE_TRACE_MSG)

-----------------------------------------------------------------------------
(* C19 *)

-----------------------------------------------------------------------------
(* Worker threads: one predicate, shared by the threads, is evaluated by    *)
(* several of them at a time, each on an event of its own.  A thread takes  *)
(* an event and later returns from the call of the lambda.                  *)

\* the definitions of the shared predicate: one for each lambda
WorkerDefs ==
    {<<"exists", Def(<<"a">>, Str(<<"+", "e", "x", "i", "s", "t", "s">>))>>,
     <<"not_exists", Def(<<"a">>, Str(<<"+", "n", "o", "t", "_", "e", "x", "i", "s", "t", "s">>))>>,
     <<"s_eq", Def(<<"a">>, Str(<<"+", "s", "_", "e", "q", "/", "$", "b">>))>>,
     <<"s_eq_n", Def(<<"a">>, Str(<<"+", "s", "_", "e", "q", "_", "n", "/", "3", "/", "$", "b">>))>>,
     <<"i_ge", Def(<<"a">>, Str(<<"+", "i", "_", "g", "e", "/", "$", "b">>))>>,
     <<"r_match", Def(<<"a">>, Str(<<"+", "r", "_", "m", "a", "t", "c", "h", "/", "a", "b">>))>>,
     <<"r_not_match", Def(<<"a">>, Str(<<"+", "r", "_", "n", "o", "t", "_", "m", "a", "t", "c", "h", "/", "a", "b">>))>>,
     <<"ip_cidr", Def(<<"a">>, Str(<<"+", "i", "p", "_", "c", "i", "d", "r", "/", "1", "0", ".", "0", ".", "0", ".", "0", "/", "8">>))>>}

\* the events the workers evaluate: strings, integers, an address
WorkerEvents == {2, 4, 7, 14}

\* a worker's read of a value outside the library's contract stopped the
\* process
Stopped == \E w \in Workers : work[w].raised = "crash"

\* the builder of the shared predicate is called
BuildShared ==
    \E hd \in WorkerDefs :
        \E r \in BuilderOf(hd[1], hd[2]) : Build(hd[1], hd[2], r)

\* worker w is handed an event and enters the lambda
Start(w) ==
    /\ phase = "built"
    /\ ~Stopped
    /\ work[w].pc \in {"idle", "done"}
    /\ \E i \in WorkerEvents :
          work' = [work EXCEPT ![w] =
                      [pc |-> "running", event |-> i, doc |-> Events[i],
                       ret |-> FALSE, raised |-> "none", trace |-> <<>>]]
    /\ UNCHANGED <<phase, helper, def, error, pred, event, ret, raised, trace,
                   m_doc, call>>

\* worker w returns from the lambda
Finish(w) ==
    /\ phase = "built"
    /\ ~Stopped
    /\ work[w].pc = "running"
    /\ \E o \in Call(pred, work[w].doc) :
          work' = [work EXCEPT ![w] =
                      [pc |-> "done", event |-> work[w].event,
                       doc |-> Inspected(pred, work[w].doc),
                       ret |-> o.ret, raised |-> o.raised, trace |-> o.trace]]
    /\ pred' = Captured(pred, work[w].doc)
    /\ UNCHANGED <<phase, helper, def, error, event, ret, raised, trace,
                   m_doc, call>>

NextWorkers ==
    \/ BuildShared
    \/ \E w \in Workers : Start(w)
    \/ \E w \in Workers : Finish(w)

SpecWorkers == Init /\ [][NextWorkers]_vars

-----------------------------------------------------------------------------
(* C20 *)

\* the predicates the builder returns on the definition
BuiltPreds ==
    {r.pred : r \in {b \in BuilderOf(helper, def) : b.error = NoError}}

\* what the evaluation of worker w gave
Given(w) ==
    [ret |-> work[w].ret, raised |-> work[w].raised, trace |-> work[w].trace]

-----------------------------------------------------------------------------
(* C21 *)

\* a predicate of a 2-token string or integer operator was evaluated
CompareCase == Evaluated /\ helper \in StringHelpers \cup IntHelpers

\* a comes before b in the lexicographic order of their bytes
LexLess(a, b) ==
    \E k \in 1..Len(b) :
        /\ \A i \in 1..(k - 1) : i <= Len(a) /\ a[i] = b[i]
        /\ \/ k = Len(a) + 1
           \/ k <= Len(a) /\ Ascii[a[k]] < Ascii[b[k]]

LexCompare(a, b) == IF a = b THEN 0 ELSE IF LexLess(a, b) THEN -1 ELSE 1

\* the relation an operator name stands for, on the sign of a compare
Holds(h, c) ==
    CASE h \in {"s_eq", "i_eq"} -> c = 0
      [] h \in {"s_ne", "i_ne"} -> c # 0
      [] h \in {"s_lt", "i_lt"} -> c < 0
      [] h \in {"s_le", "i_le"} -> c <= 0
      [] h \in {"s_gt", "i_gt"} -> c > 0
      [] h \in {"s_ge", "i_ge"} -> c >= 0

\* the operator's comparison of the field's value and the right-hand side
Comparison ==
    IF helper \in StringHelpers
    THEN Holds(helper, LexCompare(GetString(FieldLookup.value), RhsString))
    ELSE Holds(helper, SignedCompare(FieldLookup.value.v, RhsText))

\* C21: a 2-token string or integer predicate gives false when the field is
\* absent or not of the operator's kind, else false when it holds a
\* reference whose value is absent or not of the operator's kind, else the
\* operator's comparison of the field's value and the right-hand side
\* (the referenced value or the literal), by bytes for strings and by
\* signed order for integers.
C21_EvaluationOrder ==
    CompareCase =>
        /\ raised = "none"
        /\ ret = IF ~FieldTyped THEN FALSE
                 ELSE IF IsRef(ArgToken) /\ ~RefTyped THEN FALSE
                 ELSE Comparison

\* "+i_ge/$b" was evaluated on {"a": 5, "b": 5} and returned true
C21_Witness ==
    /\ CompareCase
    /\ helper = "i_ge"
    /\ def.name = <<"a">>
    /\ ArgToken = <<"$", "b">>
    /\ FieldTyped /\ FieldLookup.value.v = <<"5">>
    /\ RefTyped /\ RefLookup.value.v = <<"5">>
    /\ ret

-----------------------------------------------------------------------------
(* C22 *)

\* a builder returned a predicate
Compiled == phase \in {"built", "evaluated"}

\* the predicate holds a literal: a string for the string operators, an
\* int for the integer operators
HoldsLiteral == pred.value.has \/ pred.ivalue.has

HoldsReference == pred.refValue.has

-----------------------------------------------------------------------------
(* A json::Document of its own: it is default-constructed, holding null,   *)
(* and its members are called one after another                            *)

\* the documents assigned to it
Docs ==
    { Obj(<<>>),
      Obj(<<"a">> :> Str(<<"a", "b">>) @@ <<"b">> :> Arr(<<Str(<<"x">>), Str(<<"y">>)>>)),
      Obj(<<"a">> :> Obj(<<"s">> :> Str(<<"a", "b">>)) @@ <<"b">> :> Num(<<"5">>)) }

\* the paths the document is changed at: the root, members, nested
\* members, elements of an array, and one that is no JSON pointer
Paths ==
    { <<>>, <<"/", "a">>, <<"/", "a", "/", "s">>, <<"/", "a", "/", "x">>,
      <<"/", "b", "/", "0">>, <<"/", "b", "/", "-">>, <<"/", "b", "/", "s">>,
      <<"/", "c">>, <<"a">> }

\* the paths values are copied from
FromPaths == { <<"/", "a">>, <<"/", "a", "/", "s">>, <<"/", "b", "/", "0">>, <<"/", "c">>, <<"a">> }

\* the paths the document is read at: those, an array, and a path with
\* a '~' that escapes nothing
ReadPaths == Paths \cup { <<"/", "b">>, <<"/", "a", "~", "b">> }

\* the values set and compared with
Values == { Str(<<"a", "b">>), Num(<<"5">>) }

\* the Document takes a call: none has stopped the process and fewer than
\* MaxCalls were made
Callable == call.thrown # "crash" /\ call.n < MaxCalls

\* the record of a call
Called(op, path, from, value, r, x) ==
    [op |-> op, path |-> path, from |-> from, value |-> value,
     ret |-> r, thrown |-> x, before |-> m_doc, n |-> call.n + 1]

\* Document::operator=(const Document&)
Assign ==
    /\ Callable
    /\ \E other \in Docs :
          /\ m_doc' = other
          /\ call' = Called("assign", <<>>, <<>>, other, FALSE, "none")
    /\ UNCHANGED <<phase, helper, def, error, pred, event, ret, raised, trace, work>>

\* Document::get
Get ==
    /\ Callable
    /\ \E path \in ReadPaths :
          LET r == get(m_doc, path)
          IN  call' = Called("get", path, <<>>, r.value, FALSE, r.thrown)
    /\ UNCHANGED <<phase, helper, def, error, pred, event, ret, raised, trace, work, m_doc>>

\* Document::exists
Exists ==
    /\ Callable
    /\ \E path \in ReadPaths :
          LET r == exists(m_doc, path)
          IN  call' = Called("exists", path, <<>>, Null, r.value, r.thrown)
    /\ UNCHANGED <<phase, helper, def, error, pred, event, ret, raised, trace, work, m_doc>>

\* Document::equals(path, expected)
Equals ==
    /\ Callable
    /\ \E path \in ReadPaths : \E expected \in Values :
          LET r == equals(m_doc, path, expected)
          IN  call' = Called("equals", path, <<>>, expected, r.value, r.thrown)
    /\ UNCHANGED <<phase, helper, def, error, pred, event, ret, raised, trace, work, m_doc>>

\* Document::set(path, v)
Set ==
    /\ Callable
    /\ \E path \in Paths : \E v \in Values :
          LET r == set(m_doc, path, v)
          IN  /\ m_doc' = r.doc
              /\ call' = Called("set", path, <<>>, v, r.ret, r.thrown)
    /\ UNCHANGED <<phase, helper, def, error, pred, event, ret, raised, trace, work>>

\* Document::set(to, from)
SetFrom ==
    /\ Callable
    /\ \E to \in Paths : \E from \in FromPaths : \E r \in setFrom(m_doc, to, from) :
          /\ m_doc' = r.doc
          /\ call' = Called("setFrom", to, from, Null, r.ret, r.thrown)
    /\ UNCHANGED <<phase, helper, def, error, pred, event, ret, raised, trace, work>>

\* Document::erase
Erase ==
    /\ Callable
    /\ \E path \in Paths :
          LET r == erase(m_doc, path)
          IN  /\ m_doc' = r.doc
              /\ call' = Called("erase", path, <<>>, Null, r.ret, r.thrown)
    /\ UNCHANGED <<phase, helper, def, error, pred, event, ret, raised, trace, work>>

NextDocument ==
    \/ Assign
    \/ Get
    \/ Exists
    \/ Equals
    \/ Set
    \/ SetFrom
    \/ Erase

SpecDocument == Init /\ [][NextDocument]_vars

-----------------------------------------------------------------------------
(* C23 *)

\* a JSON pointer: empty, or beginning with '/' and with every '~'
\* followed by '0' or '1'
ValidPointer(path) ==
    \/ path = <<>>
    \/ /\ path[1] = "/"
       /\ \A i \in 1..Len(path) :
             path[i] = "~" => i < Len(path) /\ path[i + 1] \in {"0", "1"}

\* C23: on a valid JSON pointer get returns the value iff exists returns
\* true, and throws invalid_argument iff exists returns false; on a path
\* that is no valid JSON pointer both throw invalid_argument.
C23_GetIffExists ==
    /\ call.op = "get" =>
          LET found == exists(m_doc, call.path)
          IN  IF ValidPointer(call.path)
              THEN /\ found.thrown = "none"
                   /\ call.thrown = "none" <=> found.value
                   /\ call.thrown = "invalid_argument" <=> ~found.value
                   /\ call.thrown = "none" =>
                         equals(m_doc, call.path, call.value).value
              ELSE /\ call.thrown = "invalid_argument"
                   /\ found.thrown = "invalid_argument"
    /\ call.op = "exists" =>
          LET got == get(m_doc, call.path)
          IN  IF ValidPointer(call.path)
              THEN /\ call.thrown = "none"
                   /\ call.ret <=> got.thrown = "none"
                   /\ ~call.ret <=> got.thrown = "invalid_argument"
              ELSE /\ call.thrown = "invalid_argument"
                   /\ got.thrown = "invalid_argument"

\* get("/a/s") returned the string "ab" of a document that holds it there
C23_Witness ==
    /\ call.op = "get"
    /\ call.path = <<"/", "a", "/", "s">>
    /\ call.thrown = "none"
    /\ call.value = Str(<<"a", "b">>)
    /\ exists(m_doc, call.path).value

-----------------------------------------------------------------------------
(* C24 *)

\* path p is path q or leads to it
LeadsTo(p, q) ==
    /\ Len(p) <= Len(q)
    /\ SubSeq(q, 1, Len(p)) = p
    /\ Len(p) = Len(q) \/ q[Len(p) + 1] = "/"

\* one of the two paths is the other, an ancestor or a descendant of it
OnOneLine(p, q) == LeadsTo(p, q) \/ LeadsTo(q, p)

\* the valid paths looked at before and after a call
Probes == {p \in ReadPaths \cup {<<"/", "b", "/", "1">>} : ValidPointer(p)}

\* what is at path p is what was there before the call
Kept(p) == get(m_doc, p) = get(call.before, p)

\* the call left alone every path off the line of its target
Frame(target) == \A p \in Probes : ~OnOneLine(p, target) => Kept(p)

\* the value at path to is the value path from had before the call, or has
\* after it
Copied(to, from) ==
    LET now == get(m_doc, to)
    IN  /\ now.thrown = "none"
        /\ \/ now.value = get(call.before, from).value
           \/ now = [get(m_doc, from) EXCEPT !.what = now.what]

\* C24: on valid paths, set(path, v) returns true and then exists(path)
\* and equals(path, v) hold; erase(path) returns true iff the path existed
\* and is not the root, and then exists(path) is false; set(to, from)
\* returns true and makes the value at to equal the value at from iff from
\* exists, and else returns false and leaves the document as it was; every
\* path that is not the target, an ancestor or a descendant of it keeps
\* its value.
C24_SetEraseFrame ==
    /\ call.op = "set" /\ ValidPointer(call.path) =>
          /\ call.thrown = "none"
          /\ call.ret
          /\ exists(m_doc, call.path).value
          /\ equals(m_doc, call.path, call.value).value
          /\ Frame(call.path)
    /\ call.op = "erase" /\ ValidPointer(call.path) =>
          /\ call.thrown = "none"
          /\ call.ret <=> exists(call.before, call.path).value /\ call.path # <<>>
          /\ call.path # <<>> => ~exists(m_doc, call.path).value
          /\ Frame(call.path)
    /\ call.op = "setFrom" /\ ValidPointer(call.path) /\ ValidPointer(call.from) =>
          /\ call.thrown = "none"
          /\ IF exists(call.before, call.from).value
             THEN call.ret /\ Copied(call.path, call.from)
             ELSE ~call.ret /\ m_doc = call.before
          /\ Frame(call.path)

====
